---------------------------- MODULE Spec2Model ----------------------------
(***************************************************************************)
(* A model of the Monkey language front-end: the character-driven lexer    *)
(* (src/src/lexer/mod.rs), the Pratt parser (src/src/parser/mod.rs) and    *)
(* the pretty-printer of the AST (src/ast, src/rust/ast).                  *)
(*                                                                         *)
(* A source text is a sequence of characters, each character a one-element *)
(* string; the NUL character is the string NUL.  Positions in the lexer    *)
(* are byte offsets (0-based) as in the Rust code, so a character that     *)
(* takes two bytes in UTF-8 moves the read head by two.                    *)
(***************************************************************************)
EXTENDS Integers, Sequences, FiniteSets, TLC

VARIABLES
    input,      \* the source text handed to Lexer::new
    lx,         \* the state of a lexer driven directly (its fields)
    tokens,     \* the tokens next_token has returned so far, in order
    pc,         \* where the driver of the parser stands
    p,          \* the parser: its lexer, curr_token, peek_token, errors
    program,    \* Program.statements built so far by parse_program
    attempt,    \* what the last statement attempt of parse_program did
    round,      \* 1: parsing the input; 2: parsing the print of round 1
    first,      \* the outcome of round 1 (print and diagnostics)
    reader,     \* the lines the repl has not read yet
    line_read,  \* the repl's line buffer (its variable line)
    output      \* what the repl has written so far, in order

vars == <<input, lx, tokens, pc, p, program, attempt, round, first, reader, line_read, output>>

-----------------------------------------------------------------------------
(* Characters *)

NUL == "<NUL>"

AsciiLower == {"a","b","c","d","e","f","g","h","i","j","k","l","m",
               "n","o","p","q","r","s","t","u","v","w","x","y","z"}

AsciiUpper == {"A","B","C","D","E","F","G","H","I","J","K","L","M",
               "N","O","P","Q","R","S","T","U","V","W","X","Y","Z"}

is_ascii_alphabetic(c) == c \in AsciiLower \cup AsciiUpper

is_ascii_digit(c) == c \in {"0","1","2","3","4","5","6","7","8","9"}

\* char::is_ascii_whitespace: space, tab, line feed, form feed, carriage return
is_ascii_whitespace(c) == c \in {" ", "\t", "\n", "\f", "\r"}

\* A character outside ASCII used by the model: two bytes in UTF-8.
TwoByteChar == "<U+00E9>"

len_utf8(c) == IF c = TwoByteChar THEN 2 ELSE 1

\* let v = <value>; <rest using v>: the value is computed once and named
Bind(v, K(_)) == K(v)

\* The byte offset at which the k-th character of s starts (k = Len(s) + 1:
\* the offset of the end of s).  Every character of the model is one or two
\* bytes long in UTF-8.
byte_offset(s, k) ==
    (k - 1) + Cardinality({j \in 1..(k - 1) : len_utf8(s[j]) = 2})

\* str::len: the length in bytes
byte_len(s) == byte_offset(s, Len(s) + 1)

\* str::char_indices().find(|(idx, _)| idx == pos): the index (1-based, in
\* the sequence) of the character that starts at byte offset pos, 0 if none.
char_index(s, pos) ==
    IF \E k \in 1..Len(s) : byte_offset(s, k) = pos
    THEN CHOOSE k \in 1..Len(s) : byte_offset(s, k) = pos
    ELSE 0

\* &input[start..end] for byte offsets on character boundaries
slice(s, start, end) ==
    LET within == {k \in 1..Len(s) : start <= byte_offset(s, k) /\ byte_offset(s, k) < end}
    IN IF within = {} THEN <<>>
       ELSE SubSeq(s, char_index(s, start), char_index(s, start) + Cardinality(within) - 1)

-----------------------------------------------------------------------------
(* Tokens *)

Token(token_type, literal, line, column) ==
    [token_type |-> token_type, literal |-> literal, line |-> line, column |-> column]

lookup_identifier(ident) ==
    CASE ident = <<"f","n">> -> "FUNCTION"
      [] ident = <<"l","e","t">> -> "LET"
      [] ident = <<"i","f">> -> "IF"
      [] ident = <<"e","l","s","e">> -> "ELSE"
      [] ident = <<"r","e","t","u","r","n">> -> "RETURN"
      [] ident = <<"t","r","u","e">> -> "TRUE"
      [] ident = <<"f","a","l","s","e">> -> "FALSE"
      [] OTHER -> "IDENT"

-----------------------------------------------------------------------------
(* Lexer *)

read_char(l) ==
    LET nl == l.curr_char = "\n"
        line == IF nl THEN l.line + 1 ELSE l.line
        column == IF nl THEN 0 ELSE l.column
        eof == l.next_read_position >= byte_len(l.input)
        k == char_index(l.input, l.next_read_position)
        ch == IF eof THEN NUL ELSE l.input[k]
    IN [l EXCEPT !.line = line,
                 !.column = column + 1,
                 !.curr_char = ch,
                 !.curr_position = IF eof THEN l.curr_position ELSE l.next_read_position,
                 !.next_read_position = l.next_read_position + len_utf8(ch)]

LexerNew(in) ==
    read_char([input |-> in, curr_position |-> 0, next_read_position |-> 0,
               curr_char |-> NUL, line |-> 1, column |-> 0])

\* A lexer that looks at the current character again instead of the next
peek_char_current(l) == l.curr_char

peek_char(l) ==
    IF l.next_read_position >= byte_len(l.input) THEN NUL
    ELSE l.input[char_index(l.input, l.next_read_position)]

RECURSIVE skip_white_space(_)
skip_white_space(l) ==
    IF is_ascii_whitespace(l.curr_char) THEN skip_white_space(read_char(l)) ELSE l

is_letter(l) == is_ascii_alphabetic(l.curr_char) \/ l.curr_char = "_"

is_digit(l) == is_ascii_digit(l.curr_char)

RECURSIVE read_while_letter(_)
read_while_letter(l) == IF is_letter(l) THEN read_while_letter(read_char(l)) ELSE l

RECURSIVE read_while_digit(_)
read_while_digit(l) == IF is_digit(l) THEN read_while_digit(read_char(l)) ELSE l

\* The lexer after the run and the literal read: [l, literal]
read_identifier(l) ==
    Bind(read_while_letter(l), LAMBDA l2 :
      [l |-> l2,
       literal |-> slice(l2.input, l.curr_position,
                         IF l2.curr_char = NUL THEN byte_len(l2.input)
                         ELSE l2.curr_position)])

read_number(l) ==
    Bind(read_while_digit(l), LAMBDA l2 :
      [l |-> l2,
       literal |-> slice(l2.input, l.curr_position,
                         IF l2.curr_char = NUL THEN byte_len(l2.input)
                         ELSE l2.curr_position)])

SingleCharType(c) ==
    CASE c = "-" -> "MINUS"
      [] c = "/" -> "SLASH"
      [] c = "*" -> "ASTERISK"
      [] c = "<" -> "LT"
      [] c = ">" -> "GT"
      [] c = "+" -> "PLUS"
      [] c = "," -> "COMMA"
      [] c = ";" -> "SEMICOLON"
      [] c = "(" -> "LPAREN"
      [] c = ")" -> "RPAREN"
      [] c = "{" -> "LBRACE"
      [] c = "}" -> "RBRACE"
      [] c = "[" -> "LBRACKET"
      [] c = "]" -> "RBRACKET"
      [] c = ":" -> "COLON"
      [] OTHER -> "ILLEGAL"

SingleChars == {"-", "/", "*", "<", ">", "+", ",", ";", "(", ")", "{", "}", "[", "]", ":"}

\* Lexer::next_token: the lexer after the call and the token returned
next_token(l0) ==
    Bind(skip_white_space(l0), LAMBDA l :
      CASE l.curr_char = "=" ->
             IF peek_char(l) = "="
             THEN Bind(read_char(l), LAMBDA l2 :
                    [l |-> read_char(l2),
                     tok |-> Token("EQ", <<l.curr_char, l2.curr_char>>, l.line, l.column)])
             ELSE [l |-> read_char(l),
                   tok |-> Token("ASSIGN", <<l.curr_char>>, l.line, l.column)]
        [] l.curr_char = "!" ->
             IF peek_char(l) = "="
             THEN Bind(read_char(l), LAMBDA l2 :
                    [l |-> read_char(l2),
                     tok |-> Token("NOTEQ", <<l.curr_char, l2.curr_char>>, l.line, l.column)])
             ELSE [l |-> read_char(l),
                   tok |-> Token("BANG", <<l.curr_char>>, l.line, l.column)]
        [] l.curr_char \in SingleChars ->
             [l |-> read_char(l),
              tok |-> Token(SingleCharType(l.curr_char), <<l.curr_char>>, l.line, l.column)]
        [] l.curr_char = NUL ->
             [l |-> read_char(l), tok |-> Token("EOF", <<>>, l.line, l.column)]
        [] OTHER ->
             IF is_letter(l)
             THEN Bind(read_identifier(l), LAMBDA r :
                    [l |-> r.l,
                     tok |-> Token(lookup_identifier(r.literal), r.literal, l.line, l.column)])
             ELSE IF is_digit(l)
             THEN Bind(read_number(l), LAMBDA r :
                    [l |-> r.l, tok |-> Token("INT", r.literal, l.line, l.column)])
             ELSE [l |-> read_char(l),
                   tok |-> Token("ILLEGAL", <<l.curr_char>>, l.line, l.column)])

-----------------------------------------------------------------------------
(* Precedence *)

LOWEST == 1
EQUALS == 2
LESSGREATER == 3
SUM == 4
PRODUCT == 5
PREFIX == 6
CALL == 7

from_token_type(token_type) ==
    CASE token_type = "EQ" -> EQUALS
      [] token_type = "NOTEQ" -> EQUALS
      [] token_type = "LT" -> LESSGREATER
      [] token_type = "GT" -> LESSGREATER
      [] token_type = "PLUS" -> SUM
      [] token_type = "MINUS" -> SUM
      [] token_type = "SLASH" -> PRODUCT
      [] token_type = "ASTERISK" -> PRODUCT
      [] token_type = "LPAREN" -> CALL
      [] OTHER -> LOWEST

-----------------------------------------------------------------------------
(* Parser: construction, cursor and diagnostics *)

None == [kind |-> "None"]

IsNone(r) == r.kind = "None"

\* What a parse function hands back: the parser after it and its Option
R(q, r) == [p |-> q, r |-> r]

\* ParserError::at_token(&token, message); the message is kept as its
\* format (kind) and the values put into it
ParserErrorAt(token, kind, expected, got, arg) ==
    [span |-> [line |-> token.line, column |-> token.column],
     kind |-> kind, expected |-> expected, got |-> got, arg |-> arg]

\* A parser that keeps only its last diagnostic
push_error_replacing(q, e) == [q EXCEPT !.errors = <<e>>]

push_error(q, e) == [q EXCEPT !.errors = Append(@, e)]

\* The prefix_parse_fns table filled by Parser::new
prefix_parse_fns(token_type) ==
    CASE token_type = "IDENT" -> "parse_identifier"
      [] token_type = "INT" -> "parse_integer_literal"
      [] token_type = "BANG" -> "parse_prefix_expression"
      [] token_type = "MINUS" -> "parse_prefix_expression"
      [] token_type = "TRUE" -> "parse_boolean_literal"
      [] token_type = "FALSE" -> "parse_boolean_literal"
      [] token_type = "LPAREN" -> "parse_grouped_expression"
      [] token_type = "IF" -> "parse_if_expression"
      [] token_type = "LBRACE" -> "parse_block_statement"
      [] token_type = "ELSE" -> "parse_if_expression"
      [] token_type = "FUNCTION" -> "parse_function_literal"
      [] OTHER -> "none"

\* The infix_parse_fns table filled by Parser::new
infix_parse_fns(token_type) ==
    CASE token_type \in {"PLUS", "MINUS", "SLASH", "ASTERISK", "EQ", "NOTEQ", "LT", "GT"}
           -> "parse_infix_expression"
      [] token_type = "LPAREN" -> "parse_call_expression"
      [] OTHER -> "none"

\* Parser::next_token
p_next_token(q) ==
    Bind(next_token(q.l), LAMBDA n :
      [q EXCEPT !.curr_token = q.peek_token, !.peek_token = n.tok, !.l = n.l])

ParserNew(l) ==
    p_next_token(p_next_token(
        [l |-> l,
         curr_token |-> Token("EOF", <<>>, 0, 0),
         peek_token |-> Token("EOF", <<>>, 0, 0),
         errors |-> <<>>]))

is_curr_token(q, token_type) == q.curr_token.token_type = token_type

is_peek_token(q, token_type) == q.peek_token.token_type = token_type

\* A parser that reports an unexpected peek token at the current token
display_peek_error_at_curr(q, expected) ==
    push_error(q, ParserErrorAt(q.curr_token, "expected token", expected,
                                q.peek_token.token_type, <<>>))

display_peek_error(q, expected) ==
    push_error(q, ParserErrorAt(q.peek_token, "expected token", expected,
                                q.peek_token.token_type, <<>>))

\* A parser whose expect_peek steps over the token it did not expect
expect_peek_consuming(q, token_type) ==
    IF is_peek_token(q, token_type)
    THEN [p |-> p_next_token(q), ok |-> TRUE]
    ELSE [p |-> p_next_token(display_peek_error(q, token_type)), ok |-> FALSE]

\* expect_peek: [p, ok]
expect_peek(q, token_type) ==
    IF is_peek_token(q, token_type)
    THEN [p |-> p_next_token(q), ok |-> TRUE]
    ELSE [p |-> display_peek_error(q, token_type), ok |-> FALSE]

\* A parser that records nothing for a token no expression starts with
no_prefix_parse_function_silent(q) == q

no_prefix_parse_function_error(q) ==
    push_error(q, ParserErrorAt(q.curr_token, "no prefix parse function", "",
                                q.curr_token.token_type, <<>>))

\* A parser that reports the missing semicolon at the current token, not at
\* the peek token
missing_semicolon_error_at_curr(q) ==
    push_error(q, ParserErrorAt(q.curr_token, "missing semicolon", "",
                                q.peek_token.token_type, <<>>))

missing_semicolon_error(q) ==
    push_error(q, ParserErrorAt(q.peek_token, "missing semicolon", "",
                                q.peek_token.token_type, <<>>))

\* An error of a parse function that only adds context, at the current token
context_error(q, kind) ==
    push_error(q, ParserErrorAt(q.curr_token, kind, "", "", <<>>))

peek_precedence(q) == from_token_type(q.peek_token.token_type)

curr_precedence(q) == from_token_type(q.curr_token.token_type)

-----------------------------------------------------------------------------
(* str::parse::<i64> of a token literal and the Display of an i64.         *)
(* TLC's integers are 32 bits wide, so an i64 is kept as its decimal       *)
(* digits without leading zeros, which is also what Display writes; the    *)
(* range check against i64::MAX is made on the digits.                     *)

I64_MAX_DIGITS == <<"9","2","2","3","3","7","2","0","3","6","8","5","4","7","7","5","8","0","7">>

digit_value(c) ==
    CASE c = "0" -> 0 [] c = "1" -> 1 [] c = "2" -> 2 [] c = "3" -> 3 [] c = "4" -> 4
      [] c = "5" -> 5 [] c = "6" -> 6 [] c = "7" -> 7 [] c = "8" -> 8 [] c = "9" -> 9

RECURSIVE strip_leading_zeros(_)
strip_leading_zeros(d) ==
    IF Len(d) > 1 /\ Head(d) = "0" THEN strip_leading_zeros(Tail(d)) ELSE d

\* a <= b for two digit strings of the same length
RECURSIVE digits_leq(_, _)
digits_leq(a, b) ==
    IF a = <<>> THEN TRUE
    ELSE IF digit_value(Head(a)) < digit_value(Head(b)) THEN TRUE
    ELSE IF digit_value(Head(a)) > digit_value(Head(b)) THEN FALSE
    ELSE digits_leq(Tail(a), Tail(b))

\* A parse of digits that does not check the range of i64
parse_i64_unchecked(literal) ==
    IF literal = <<>> \/ \E i \in 1..Len(literal) : ~is_ascii_digit(literal[i])
    THEN [ok |-> FALSE, value |-> <<>>]
    ELSE [ok |-> TRUE, value |-> strip_leading_zeros(literal)]

\* [ok, value]: Ok(value) or Err(_)
parse_i64(literal) ==
    IF literal = <<>> \/ \E i \in 1..Len(literal) : ~is_ascii_digit(literal[i])
    THEN [ok |-> FALSE, value |-> <<>>]
    ELSE LET d == strip_leading_zeros(literal)
         IN IF Len(d) < Len(I64_MAX_DIGITS)
               \/ (Len(d) = Len(I64_MAX_DIGITS) /\ digits_leq(d, I64_MAX_DIGITS))
            THEN [ok |-> TRUE, value |-> d]
            ELSE [ok |-> FALSE, value |-> <<>>]

-----------------------------------------------------------------------------
(* Parser: the parse functions.  Each takes the parser q and returns      *)
(* R(q', r): the parser after the call and Some(node) or None.            *)

\* self.fn(arg): the call of the parse function named fn on the parser q,
\* made directly or through the prefix and infix tables
RECURSIVE call(_, _, _)
RECURSIVE infix_loop(_, _, _)
RECURSIVE block_loop(_, _)
RECURSIVE call_arguments_loop(_, _)

parse_identifier(q) ==
    R(q, [kind |-> "Identifier", token |-> q.curr_token, value |-> q.curr_token.literal])

parse_integer_literal(q) ==
    Bind(parse_i64(q.curr_token.literal), LAMBDA v :
      IF v.ok
      THEN R(q, [kind |-> "IntegerLiteral", token |-> q.curr_token, value |-> v.value])
      ELSE R(push_error(q, ParserErrorAt(q.curr_token, "invalid integer literal", "", "",
                                         q.curr_token.literal)),
             None))

parse_boolean_literal(q) ==
    R(q, [kind |-> "BooleanLiteral", token |-> q.curr_token,
          value |-> is_curr_token(q, "TRUE")])

\* A parser whose prefix operators take the whole expression that follows
\* as their operand
parse_prefix_expression_lowest(q) ==
    Bind(call("parse_expression", p_next_token(q), LOWEST), LAMBDA a :
      IF IsNone(a.r)
      THEN R(push_error(a.p, ParserErrorAt(a.p.curr_token, "failed to parse prefix rhs",
                                           "", "", q.curr_token.literal)),
             None)
      ELSE R(a.p, [kind |-> "PrefixExpression", token |-> q.curr_token,
                   operator |-> q.curr_token.literal, right |-> a.r]))

parse_prefix_expression(q) ==
    Bind(call("parse_expression", p_next_token(q), PREFIX), LAMBDA a :
      IF IsNone(a.r)
      THEN R(push_error(a.p, ParserErrorAt(a.p.curr_token, "failed to parse prefix rhs",
                                           "", "", q.curr_token.literal)),
             None)
      ELSE R(a.p, [kind |-> "PrefixExpression", token |-> q.curr_token,
                   operator |-> q.curr_token.literal, right |-> a.r]))

\* A parser whose infix operators take their right operand one level lower:
\* neighbouring operators of equal precedence would group to the right
parse_infix_expression_right(q, left) ==
    Bind(call("parse_expression", p_next_token(q), curr_precedence(q) - 1), LAMBDA a :
      IF IsNone(a.r)
      THEN R(push_error(a.p, ParserErrorAt(a.p.curr_token,
                                           "failed to parse right-hand side of infix expression",
                                           "", "", q.curr_token.literal)),
             None)
      ELSE R(a.p, [kind |-> "InfixExpression", token |-> q.curr_token, left |-> left,
                   operator |-> q.curr_token.literal, right |-> a.r]))

parse_infix_expression(q, left) ==
    Bind(call("parse_expression", p_next_token(q), curr_precedence(q)), LAMBDA a :
      IF IsNone(a.r)
      THEN R(push_error(a.p, ParserErrorAt(a.p.curr_token,
                                           "failed to parse right-hand side of infix expression",
                                           "", "", q.curr_token.literal)),
             None)
      ELSE R(a.p, [kind |-> "InfixExpression", token |-> q.curr_token, left |-> left,
                   operator |-> q.curr_token.literal, right |-> a.r]))

\* A parser whose parentheses hold a single operand: the expression inside
\* is parsed at the level of a prefix operand
parse_grouped_expression_operand(q) ==
    Bind(call("parse_expression", p_next_token(q), PREFIX), LAMBDA a :
      IF IsNone(a.r)
      THEN R(context_error(a.p, "failed to parse grouped expression"), None)
      ELSE Bind(expect_peek(a.p, "RPAREN"), LAMBDA e :
             IF ~e.ok THEN R(e.p, None) ELSE R(e.p, a.r)))

parse_grouped_expression(q) ==
    Bind(call("parse_expression", p_next_token(q), LOWEST), LAMBDA a :
      IF IsNone(a.r)
      THEN R(context_error(a.p, "failed to parse grouped expression"), None)
      ELSE Bind(expect_peek(a.p, "RPAREN"), LAMBDA e :
             IF ~e.ok THEN R(e.p, None) ELSE R(e.p, a.r)))

\* The else branch of parse_if_expression, after the consequence was parsed
parse_if_alternative(q, token, condition, consequence) ==
    IF is_peek_token(q, "ELSE")
    THEN Bind(expect_peek(p_next_token(q), "LBRACE"), LAMBDA e :
           IF ~e.ok THEN R(e.p, None)
           ELSE Bind(call("parse_block_statement", e.p, None), LAMBDA b :
                  IF IsNone(b.r)
                  THEN R(context_error(b.p, "failed to parse if block for alternative"), None)
                  ELSE IF b.r.kind # "BlockStatement"
                  THEN R(context_error(b.p, "expected block statement for if alternative"), None)
                  ELSE R(b.p, [kind |-> "IfExpression", token |-> token,
                               condition |-> condition, consequence |-> consequence,
                               alternative |-> b.r])))
    ELSE R(q, [kind |-> "IfExpression", token |-> token, condition |-> condition,
               consequence |-> consequence, alternative |-> None])

parse_if_expression(q) ==
    Bind(expect_peek(q, "LPAREN"), LAMBDA e1 :
      IF ~e1.ok THEN R(e1.p, None)
      ELSE Bind(call("parse_expression", p_next_token(e1.p), LOWEST), LAMBDA c :
        IF IsNone(c.r)
        THEN R(context_error(c.p, "failed to parse if condition"), None)
        ELSE Bind(expect_peek(c.p, "RPAREN"), LAMBDA e2 :
          IF ~e2.ok THEN R(e2.p, None)
          ELSE Bind(expect_peek(e2.p, "LBRACE"), LAMBDA e3 :
            IF ~e3.ok THEN R(e3.p, None)
            ELSE Bind(call("parse_block_statement", e3.p, None), LAMBDA b :
              IF IsNone(b.r)
              THEN R(context_error(b.p, "failed to parse if block for consequence"), None)
              ELSE IF b.r.kind # "BlockStatement"
              THEN R(context_error(b.p, "expected block statement for if consequence"), None)
              ELSE parse_if_alternative(b.p, q.curr_token, c.r, b.r))))))

\* The while loop of parse_block_statement: [p, statements]
block_loop(q, statements) ==
    IF ~is_peek_token(q, "RBRACE") /\ ~is_peek_token(q, "EOF")
    THEN Bind(call("parse_statement", p_next_token(q), None), LAMBDA s :
           IF IsNone(s.r)
           THEN block_loop(context_error(s.p, "failed to parse statement in block"), statements)
           ELSE block_loop(s.p, Append(statements, s.r)))
    ELSE [p |-> q, statements |-> statements]

parse_block_statement(q) ==
    Bind(block_loop(q, <<>>), LAMBDA b :
      Bind(expect_peek(b.p, "RBRACE"), LAMBDA e :
        IF ~e.ok THEN R(e.p, None)
        ELSE R(e.p, [kind |-> "BlockStatement", token |-> q.curr_token,
                     statements |-> b.statements])))

\* The while loop of parse_function_parameters: [p, ok, parameters]
RECURSIVE parameters_loop(_, _)
parameters_loop(q, parameters) ==
    IF is_peek_token(q, "COMMA")
    THEN Bind(parse_identifier(p_next_token(p_next_token(q))), LAMBDA i :
           IF IsNone(i.r)
           THEN [p |-> context_error(i.p, "failed to parse parameter after comma"),
                 ok |-> FALSE, parameters |-> parameters]
           ELSE IF i.r.kind # "Identifier"
           THEN [p |-> push_error(i.p, ParserErrorAt(i.p.curr_token,
                                       "expected parameter to be an identifier", "",
                                       i.p.curr_token.token_type, <<>>)),
                 ok |-> FALSE, parameters |-> parameters]
           ELSE parameters_loop(i.p, Append(parameters, i.r)))
    ELSE [p |-> q, ok |-> TRUE, parameters |-> parameters]

\* [p, ok, parameters]: Some(parameters) or None
parse_function_parameters(q) ==
    IF is_peek_token(q, "RPAREN")
    THEN [p |-> p_next_token(q), ok |-> TRUE, parameters |-> <<>>]
    ELSE Bind(parse_identifier(p_next_token(q)), LAMBDA i :
           IF IsNone(i.r)
           THEN [p |-> context_error(i.p, "failed to parse first parameter"),
                 ok |-> FALSE, parameters |-> <<>>]
           ELSE IF i.r.kind # "Identifier"
           THEN [p |-> push_error(i.p, ParserErrorAt(i.p.curr_token,
                                       "expected parameter to be an identifier", "",
                                       i.p.curr_token.token_type, <<>>)),
                 ok |-> FALSE, parameters |-> <<>>]
           ELSE Bind(parameters_loop(i.p, <<i.r>>), LAMBDA l :
                  IF ~l.ok THEN l
                  ELSE Bind(expect_peek(l.p, "RPAREN"), LAMBDA e :
                         [p |-> e.p, ok |-> e.ok, parameters |-> l.parameters])))

parse_function_literal(q) ==
    Bind(expect_peek(q, "LPAREN"), LAMBDA e1 :
      IF ~e1.ok THEN R(e1.p, None)
      ELSE Bind(parse_function_parameters(e1.p), LAMBDA ps :
        IF ~ps.ok
        THEN R(context_error(ps.p, "failed to parse function parameters"), None)
        ELSE Bind(expect_peek(ps.p, "LBRACE"), LAMBDA e2 :
          IF ~e2.ok THEN R(e2.p, None)
          ELSE Bind(call("parse_block_statement", e2.p, None), LAMBDA b :
            IF IsNone(b.r)
            THEN R(context_error(b.p, "failed to parse function body"), None)
            ELSE IF b.r.kind # "BlockStatement"
            THEN R(context_error(b.p, "expected block statement for function body"), None)
            ELSE R(b.p, [kind |-> "FunctionLiteral", token |-> q.curr_token,
                         parameters |-> ps.parameters, body |-> b.r])))))

\* The while loop of parse_call_arguments: [p, ok, arguments]
call_arguments_loop(q, arguments) ==
    IF is_peek_token(q, "COMMA")
    THEN Bind(call("parse_expression", p_next_token(p_next_token(q)), LOWEST), LAMBDA a :
           IF IsNone(a.r)
           THEN [p |-> context_error(a.p, "failed to parse call argument after comma"),
                 ok |-> FALSE, arguments |-> arguments]
           ELSE call_arguments_loop(a.p, Append(arguments, a.r)))
    ELSE [p |-> q, ok |-> TRUE, arguments |-> arguments]

\* [p, ok, arguments]: Some(arguments) or None
parse_call_arguments(q) ==
    IF is_peek_token(q, "RPAREN")
    THEN [p |-> p_next_token(q), ok |-> TRUE, arguments |-> <<>>]
    ELSE Bind(call("parse_expression", p_next_token(q), LOWEST), LAMBDA a :
           IF IsNone(a.r)
           THEN [p |-> context_error(a.p, "failed to parse call argument"),
                 ok |-> FALSE, arguments |-> <<>>]
           ELSE Bind(call_arguments_loop(a.p, <<a.r>>), LAMBDA l :
                  IF ~l.ok THEN l
                  ELSE Bind(expect_peek(l.p, "RPAREN"), LAMBDA e :
                         IF ~e.ok
                         THEN [p |-> push_error(e.p, ParserErrorAt(e.p.peek_token,
                                                "unclosed call arguments", "",
                                                e.p.peek_token.token_type, <<>>)),
                               ok |-> FALSE, arguments |-> l.arguments]
                         ELSE [p |-> e.p, ok |-> TRUE, arguments |-> l.arguments])))

\* A parser that keeps the arguments of a call in reverse order
parse_call_expression_reversed(q, function) ==
    Bind(parse_call_arguments(q), LAMBDA a :
      IF ~a.ok
      THEN R(context_error(a.p, "failed to parse call arguments"), None)
      ELSE R(a.p, [kind |-> "CallExpression", token |-> q.curr_token,
                   function |-> function,
                   arguments |-> [i \in 1..Len(a.arguments) |->
                                     a.arguments[Len(a.arguments) + 1 - i]]]))

parse_call_expression(q, function) ==
    Bind(parse_call_arguments(q), LAMBDA a :
      IF ~a.ok
      THEN R(context_error(a.p, "failed to parse call arguments"), None)
      ELSE R(a.p, [kind |-> "CallExpression", token |-> q.curr_token,
                   function |-> function, arguments |-> a.arguments]))

\* The while loop of parse_expression
infix_loop(q, left, precedence) ==
    IF ~is_peek_token(q, "SEMICOLON") /\ precedence < peek_precedence(q)
    THEN IF infix_parse_fns(q.peek_token.token_type) = "none" THEN R(q, left)
         ELSE Bind(call(infix_parse_fns(q.peek_token.token_type), p_next_token(q), left),
                   LAMBDA a : IF IsNone(a.r) THEN a ELSE infix_loop(a.p, a.r, precedence))
    ELSE R(q, left)

parse_expression(q, precedence) ==
    IF prefix_parse_fns(q.curr_token.token_type) = "none"
    THEN R(no_prefix_parse_function_error(q), None)
    ELSE Bind(call(prefix_parse_fns(q.curr_token.token_type), q, None),
              LAMBDA a : IF IsNone(a.r) THEN a ELSE infix_loop(a.p, a.r, precedence))

parse_let_statement(q) ==
    Bind(expect_peek(q, "IDENT"), LAMBDA e1 :
      IF ~e1.ok THEN R(e1.p, None)
      ELSE Bind(expect_peek(e1.p, "ASSIGN"), LAMBDA e2 :
        IF ~e2.ok THEN R(e2.p, None)
        ELSE Bind(call("parse_expression", p_next_token(e2.p), LOWEST), LAMBDA v :
          IF ~is_peek_token(v.p, "SEMICOLON")
          THEN R(missing_semicolon_error(v.p), None)
          ELSE R(p_next_token(v.p),
                 [kind |-> "Let", token |-> q.curr_token,
                  name |-> [kind |-> "Identifier", token |-> e1.p.curr_token,
                            value |-> e1.p.curr_token.literal],
                  value |-> v.r]))))

\* A parser whose return statements do not keep their value
parse_return_statement_without_value(q) ==
    IF q.curr_token.token_type # "RETURN" THEN R(q, None)
    ELSE Bind(call("parse_expression", p_next_token(q), LOWEST), LAMBDA v :
           IF ~is_peek_token(v.p, "SEMICOLON")
           THEN R(missing_semicolon_error(v.p), None)
           ELSE R(p_next_token(v.p),
                  [kind |-> "Return", token |-> q.curr_token, value |-> None]))

parse_return_statement(q) ==
    IF q.curr_token.token_type # "RETURN" THEN R(q, None)
    ELSE Bind(call("parse_expression", p_next_token(q), LOWEST), LAMBDA v :
           IF ~is_peek_token(v.p, "SEMICOLON")
           THEN R(missing_semicolon_error(v.p), None)
           ELSE R(p_next_token(v.p),
                  [kind |-> "Return", token |-> q.curr_token, value |-> v.r]))

parse_expression_statement(q) ==
    Bind(call("parse_expression", q, LOWEST), LAMBDA a :
      IF IsNone(a.r) THEN a
      ELSE IF ~is_peek_token(a.p, "SEMICOLON")
      THEN R(missing_semicolon_error(a.p), None)
      ELSE R(p_next_token(a.p),
             [kind |-> "Expression", token |-> a.p.curr_token, value |-> a.r]))

parse_statement(q) ==
    CASE q.curr_token.token_type = "LET" -> parse_let_statement(q)
      [] q.curr_token.token_type = "RETURN" -> parse_return_statement(q)
      [] OTHER -> parse_expression_statement(q)

call(fn, q, arg) ==
    CASE fn = "parse_statement" -> parse_statement(q)
      [] fn = "parse_expression" -> parse_expression(q, arg)
      [] fn = "parse_block_statement" -> parse_block_statement(q)
      [] fn = "parse_identifier" -> parse_identifier(q)
      [] fn = "parse_integer_literal" -> parse_integer_literal(q)
      [] fn = "parse_prefix_expression" -> parse_prefix_expression(q)
      [] fn = "parse_boolean_literal" -> parse_boolean_literal(q)
      [] fn = "parse_grouped_expression" -> parse_grouped_expression(q)
      [] fn = "parse_if_expression" -> parse_if_expression(q)
      [] fn = "parse_function_literal" -> parse_function_literal(q)
      [] fn = "parse_infix_expression" -> parse_infix_expression(q, arg)
      [] fn = "parse_call_expression" -> parse_call_expression(q, arg)

-----------------------------------------------------------------------------
(* Display: the pretty-printer of the AST, as a sequence of characters *)

RECURSIVE fmt_Expression(_)
RECURSIVE fmt_Statement(_)

RECURSIVE fmt_all(_)
\* for statement in &statements { write!(f, "{}", statement) }
fmt_all(statements) ==
    IF statements = <<>> THEN <<>>
    ELSE fmt_Statement(Head(statements)) \o fmt_all(Tail(statements))

RECURSIVE fmt_joined(_)
\* the items written with ", " between them
fmt_joined(items) ==
    IF items = <<>> THEN <<>>
    ELSE IF Len(items) = 1 THEN fmt_Expression(items[1])
    ELSE fmt_Expression(Head(items)) \o <<",", " ">> \o fmt_joined(Tail(items))

fmt_Identifier(e) == e.value

fmt_IntegerLiteral(e) == e.value

fmt_BooleanLiteral(e) ==
    IF e.value THEN <<"t","r","u","e">> ELSE <<"f","a","l","s","e">>

fmt_PrefixExpression(e) ==
    <<"(">> \o e.operator \o fmt_Expression(e.right) \o <<")">>

fmt_InfixExpression(e) ==
    <<"(">> \o fmt_Expression(e.left) \o <<" ">> \o e.operator \o <<" ">>
            \o fmt_Expression(e.right) \o <<")">>

\* A Display for BlockStatement that writes no braces
fmt_BlockStatement_bare(e) == fmt_all(e.statements)

fmt_BlockStatement(e) == <<"{">> \o fmt_all(e.statements) \o <<"}">>

fmt_FunctionLiteral(e) ==
    <<"f","n","(">> \o fmt_joined(e.parameters) \o <<")", " ">> \o fmt_Expression(e.body)

fmt_IfExpression(e) ==
    <<"i","f">> \o fmt_Expression(e.condition) \o fmt_Expression(e.consequence)
        \o (IF IsNone(e.alternative) THEN <<>>
            ELSE <<"e","l","s","e"," ">> \o fmt_Expression(e.alternative))

\* "<callee>(a1, a2, ...)"
fmt_CallExpression(e) ==
    fmt_Expression(e.function) \o <<"(">> \o fmt_joined(e.arguments) \o <<")">>

fmt_Expression(e) ==
    CASE e.kind = "Identifier" -> fmt_Identifier(e)
      [] e.kind = "IntegerLiteral" -> fmt_IntegerLiteral(e)
      [] e.kind = "BooleanLiteral" -> fmt_BooleanLiteral(e)
      [] e.kind = "PrefixExpression" -> fmt_PrefixExpression(e)
      [] e.kind = "InfixExpression" -> fmt_InfixExpression(e)
      [] e.kind = "IfExpression" -> fmt_IfExpression(e)
      [] e.kind = "BlockStatement" -> fmt_BlockStatement(e)
      [] e.kind = "FunctionLiteral" -> fmt_FunctionLiteral(e)
      [] e.kind = "CallExpression" -> fmt_CallExpression(e)

fmt_LetStatement(s) ==
    s.token.literal \o <<" ">> \o fmt_Identifier(s.name) \o <<" ", "=", " ">>
        \o (IF IsNone(s.value) THEN <<>> ELSE fmt_Expression(s.value)) \o <<";">>

fmt_ReturnStatement(s) ==
    s.token.literal \o <<" ">>
        \o (IF IsNone(s.value) THEN <<>> ELSE fmt_Expression(s.value)) \o <<";">>

fmt_ExpressionStatement(s) == fmt_Expression(s.value)

fmt_Statement(s) ==
    CASE s.kind = "Let" -> fmt_LetStatement(s)
      [] s.kind = "Return" -> fmt_ReturnStatement(s)
      [] s.kind = "Expression" -> fmt_ExpressionStatement(s)

fmt_Program(statements) == fmt_all(statements)

-----------------------------------------------------------------------------
(* Source texts: the scenarios of the tests and of the documentation *)

\* let x = 5; let y = 10; let foobar = 838383;
In_LetThree == <<"l","e","t"," ","x"," ","="," ","5",";"," ","l","e","t"," ","y"," ","="," ","1","0",";"," ","l","e","t"," ","f","o","o","b","a","r"," ","="," ","8","3","8","3","8","3",";">>

\* return 5; return 10; return 993322;
In_ReturnThree == <<"r","e","t","u","r","n"," ","5",";"," ","r","e","t","u","r","n"," ","1","0",";"," ","r","e","t","u","r","n"," ","9","9","3","3","2","2",";">>

\* -a * b;
In_PrefixProduct == <<"-","a"," ","*"," ","b",";">>

\* a + b * c + d / e - f;
In_Mixed == <<"a"," ","+"," ","b"," ","*"," ","c"," ","+"," ","d"," ","/"," ","e"," ","-"," ","f",";">>

\* 5 > 4 == 3 < 4;
In_Compare == <<"5"," ",">"," ","4"," ","=","="," ","3"," ","<"," ","4",";">>

\* !(true == true);
In_BangGroup == <<"!","(","t","r","u","e"," ","=","="," ","t","r","u","e",")",";">>

\* if (x < y) { x } else { y }
In_IfElse == <<"i","f"," ","(","x"," ","<"," ","y",")"," ","{"," ","x"," ","}"," ","e","l","s","e"," ","{"," ","y"," ","}">>

\* if (x < y) { x }
In_If == <<"i","f"," ","(","x"," ","<"," ","y",")"," ","{"," ","x"," ","}">>

\* fn(x, y) { x + y; }
In_FnLit == <<"f","n","(","x",","," ","y",")"," ","{"," ","x"," ","+"," ","y",";"," ","}">>

\* add(1, 2 * 3, 4 + 5);
In_Call == <<"a","d","d","(","1",","," ","2"," ","*"," ","3",","," ","4"," ","+"," ","5",")",";">>

\* a + add(b * c) + d;
In_CallInSum == <<"a"," ","+"," ","a","d","d","(","b"," ","*"," ","c",")"," ","+"," ","d",";">>

\* let = 5;
In_LetNoIdent == <<"l","e","t"," ","="," ","5",";">>

\* let x 5;
In_LetNoAssign == <<"l","e","t"," ","x"," ","5",";">>

\* foobar
In_Foobar == <<"f","o","o","b","a","r">>

\* fn(1, 2) { };
In_FnIntParams == <<"f","n","(","1",","," ","2",")"," ","{"," ","}",";">>

\* fn(,) { };
In_FnCommaParam == <<"f","n","(",",",")"," ","{"," ","}",";">>

\* { };
In_Block == <<"{"," ","}",";">>

\* else (x) { };
In_Else == <<"e","l","s","e"," ","(","x",")"," ","{"," ","}",";">>

\* let x = (5;
In_LetUnclosed == <<"l","e","t"," ","x"," ","="," ","(","5",";">>

\* a;
In_Ident == <<"a",";">>

\* 007;
In_LeadingZero == <<"0","0","7",";">>

\* fn(() { };
In_FnParenParam == <<"f","n","(","(",")"," ","{"," ","}",";">>

\* a character outside ASCII, then x;
In_NonAscii == <<TwoByteChar, "x", ";">>

\* a + b;
In_APlusB == <<"a"," ","+"," ","b",";">>

\* A function whose body returns its parameter
In_FnReturn == <<"f","n","(","x",")"," ","{"," ","r","e","t","u","r","n"," ","x",";"," ","}",";">>

\* A parenthesised sum as the left operand of a product
In_GroupProduct == <<"(","a"," ","+"," ","b",")"," ","*"," ","c",";">>

ScenarioInputs ==
    {In_FnReturn,
     In_GroupProduct,
     In_APlusB,
     In_FnParenParam,
     In_NonAscii,
     In_LetThree,
     In_ReturnThree,
     In_PrefixProduct,
     In_Mixed,
     In_Compare,
     In_BangGroup,
     In_IfElse,
     In_If,
     In_FnLit,
     In_Call,
     In_CallInSum,
     In_LetNoIdent,
     In_LetNoAssign,
     In_Foobar,
     In_FnIntParams,
     In_FnCommaParam,
     In_Block,
     In_Else,
     In_LetUnclosed,
     In_Ident,
     In_LeadingZero}

-----------------------------------------------------------------------------
(* The parser driven by parse_program, one line of source at a time *)

NoAttempt(q) == [n |-> 0, before |-> q, after |-> q, stmt |-> None]

NoFirst == [print |-> <<>>, errors |-> <<>>]

\* Lexer::new and Parser::new over the source, before parse_program's loop
InitParser(inputs) ==
    /\ input \in inputs
    /\ p = ParserNew(LexerNew(input))
    /\ program = <<>>
    /\ pc = "loop"
    /\ attempt = NoAttempt(p)
    /\ round = 1
    /\ first = NoFirst
    /\ reader = <<>>
    /\ line_read = <<>>
    /\ output = <<>>
    /\ lx = None
    /\ tokens = <<>>

RECURSIVE skip_to_semicolon(_)
\* The parser q moved on to the next `;`, or to EOF
skip_to_semicolon(q) ==
    IF is_curr_token(q, "SEMICOLON") \/ is_curr_token(q, "EOF") THEN q
    ELSE skip_to_semicolon(p_next_token(q))

\* A parse_program that after a failed statement skips to the next `;`
ParseProgramLoop_skip_to_semicolon ==
    /\ pc = "loop"
    /\ p.curr_token.token_type # "EOF"
    /\ attempt' = Bind(call("parse_statement", p, None), LAMBDA s :
                      [n |-> attempt.n + 1, before |-> p, after |-> s.p, stmt |-> s.r])
    /\ program' = IF IsNone(attempt'.stmt) THEN program
                  ELSE Append(program, attempt'.stmt)
    /\ p' = p_next_token(IF IsNone(attempt'.stmt) THEN skip_to_semicolon(attempt'.after)
                         ELSE attempt'.after)
    /\ UNCHANGED <<input, lx, tokens, pc, round, first, reader, line_read, output>>

\* A parse_program whose loop does not step over the token a statement
\* ended on
ParseProgramLoop_no_advance ==
    /\ pc = "loop"
    /\ p.curr_token.token_type # "EOF"
    /\ attempt' = Bind(call("parse_statement", p, None), LAMBDA s :
                      [n |-> attempt.n + 1, before |-> p, after |-> s.p, stmt |-> s.r])
    /\ program' = IF IsNone(attempt'.stmt) THEN program
                  ELSE Append(program, attempt'.stmt)
    /\ p' = attempt'.after
    /\ UNCHANGED <<input, lx, tokens, pc, round, first, reader, line_read, output>>

\* One iteration of the while loop of parse_program
ParseProgramLoop ==
    /\ pc = "loop"
    /\ p.curr_token.token_type # "EOF"
    /\ attempt' = Bind(call("parse_statement", p, None), LAMBDA s :
                      [n |-> attempt.n + 1, before |-> p, after |-> s.p, stmt |-> s.r])
    /\ program' = IF IsNone(attempt'.stmt) THEN program
                  ELSE Append(program, attempt'.stmt)
    /\ p' = p_next_token(attempt'.after)
    /\ UNCHANGED <<input, lx, tokens, pc, round, first, reader, line_read, output>>

\* parse_program leaves its loop on EOF and returns the Program
ParseProgramReturn ==
    /\ pc = "loop"
    /\ p.curr_token.token_type = "EOF"
    /\ pc' = "done"
    /\ UNCHANGED <<input, lx, tokens, p, program, attempt, round, first, reader, line_read, output>>

\* The print of a Program parsed without diagnostics is read back as the
\* next line: a fresh lexer and a fresh parser over it (repl's loop body)
ReadBackPrint ==
    /\ pc = "done"
    /\ round = 1
    /\ p.errors = <<>>
    /\ input' = fmt_Program(program)
    /\ first' = [print |-> fmt_Program(program), errors |-> p.errors]
    /\ p' = ParserNew(LexerNew(input'))
    /\ program' = <<>>
    /\ attempt' = NoAttempt(p')
    /\ round' = 2
    /\ pc' = "loop"
    /\ UNCHANGED <<lx, tokens, reader, line_read, output>>

NextParser == ParseProgramLoop \/ ParseProgramReturn \/ ReadBackPrint

\* The most words a generated line has
MaxWords == 3

\* The words the generated lines are made of: keywords, an identifier, an
\* integer, operators and punctuation
Vocabulary ==
    {<<"l","e","t">>, <<"r","e","t","u","r","n">>, <<"i","f">>, <<"e","l","s","e">>,
     <<"f","n">>, <<"x">>, <<"5">>, <<"=">>, <<";">>, <<"(">>, <<")">>, <<"{">>, <<"}">>,
     <<",">>, <<"+">>, <<"-">>, <<"!">>}

RECURSIVE Join(_)
\* The words with one space between them
Join(words) ==
    IF words = <<>> THEN <<>>
    ELSE IF Len(words) = 1 THEN words[1]
    ELSE words[1] \o <<" ">> \o Join(Tail(words))

RECURSIVE WordLists(_, _)
\* All sequences of at most n words
WordLists(words, n) ==
    IF n = 0 THEN {<<>>}
    ELSE LET shorter == WordLists(words, n - 1)
         IN shorter \cup {Append(t, w) : t \in shorter, w \in words}

\* What a generated line starts with: nothing, a let up to its value, or
\* an opening brace
LineStarts == {<<>>, <<<<"l","e","t">>, <<"x">>, <<"=">>>>, <<<<"{">>>>}

GeneratedInputs ==
    {Join(start \o ws) : start \in LineStarts, ws \in WordLists(Vocabulary, MaxWords)}

Init == InitParser(ScenarioInputs \cup GeneratedInputs)

Next == NextParser

Spec == Init /\ [][Next]_vars

-----------------------------------------------------------------------------
(* The parser over expression statements of operands and binary operators *)

\* The most binary operators a generated expression has
MaxOps == 3

BinaryOperators ==
    {<<"+">>, <<"-">>, <<"*">>, <<"/">>, <<"<">>, <<">">>, <<"=","=">>, <<"!","=">>}

\* The operands of a generated expression, from left to right: identifiers,
\* integers and booleans
OperandRows ==
    {<<<<"a">>, <<"5">>, <<"t","r","u","e">>, <<"b">>, <<"1","0">>, <<"c">>>>,
     <<<<"f","a","l","s","e">>, <<"x">>, <<"y">>, <<"3">>, <<"z">>, <<"7">>>>}

\* operand operator operand ... operand, as words
Interleave(operands, operators) ==
    [i \in 1..(2 * Len(operators) + 1) |->
        IF i % 2 = 1 THEN operands[(i + 1) \div 2] ELSE operators[i \div 2]]

OperatorLists == WordLists(BinaryOperators, MaxOps) \ {<<>>}

PrecedenceInputs ==
    {Join(Interleave(row, ops)) \o <<";">> : row \in OperandRows, ops \in OperatorLists}
        \cup {In_Mixed, In_Compare}

InitPrec == InitParser(PrecedenceInputs)

NextPrec == ParseProgramLoop \/ ParseProgramReturn

SpecPrec == InitPrec /\ [][NextPrec]_vars

-----------------------------------------------------------------------------
(* The parser over expression statements that hold one call *)

\* The most arguments a generated call has
MaxArgs == 3

\* What stands before the callee: nothing, a left operand and its operator,
\* or a prefix operator
CallPrefixes == {<<>>, <<<<"a">>, <<"+">>>>, <<<<"a">>, <<"*">>>>, <<<<"-">>>>, <<<<"!">>>>}

\* What stands after the call: nothing, or an operator and a right operand
CallSuffixes == {<<>>, <<<<"+">>, <<"d">>>>, <<<<"*">>, <<"d">>>>}

\* The argument expressions, as words
ArgumentWords ==
    {<<<<"1">>>>, <<<<"2">>, <<"*">>, <<"3">>>>, <<<<"4">>, <<"+">>, <<"5">>>>,
     <<<<"b">>, <<"*">>, <<"c">>>>}

RECURSIVE ArgumentLists(_)
\* All sequences of at most n argument expressions
ArgumentLists(n) ==
    IF n = 0 THEN {<<>>}
    ELSE LET shorter == ArgumentLists(n - 1)
         IN shorter \cup {Append(t, a) : t \in shorter, a \in ArgumentWords}

RECURSIVE CommaSeparated(_)
\* The words of the arguments with a comma word between two arguments
CommaSeparated(args) ==
    IF args = <<>> THEN <<>>
    ELSE IF Len(args) = 1 THEN args[1]
    ELSE args[1] \o <<<<",">>>> \o CommaSeparated(Tail(args))

\* The closing of the argument list: written, or left out
Closings == {<<<<")">>>>, <<>>}

CallInputs ==
    {Join(pre \o <<<<"a","d","d">>, <<"(">>>> \o CommaSeparated(args) \o close \o post)
        \o <<";">> :
        pre \in CallPrefixes, args \in ArgumentLists(MaxArgs), close \in Closings,
        post \in CallSuffixes}
        \cup {In_Call, In_CallInSum}

InitCall == InitParser(CallInputs)

NextCall == ParseProgramLoop \/ ParseProgramReturn

SpecCall == InitCall /\ [][NextCall]_vars

-----------------------------------------------------------------------------
(* The lexer driven directly: next_token called again and again *)

\* The longest source text the lexer is driven over
MaxLexLen == 3

\* How many more calls of next_token are made once it has returned EOF
MaxCallsAfterEof == 2

\* The characters the source texts are made of: letters (i and f make a
\* keyword), underscore, digits, the two-character operators' characters,
\* punctuation, whitespace, NUL, and characters no token starts with
LexAlphabet ==
    {"i", "f", "_", "0", "1", "=", "!", ";", " ", "\n", "\f", NUL, "@", TwoByteChar}

RECURSIVE Texts(_, _)
\* All sequences over alphabet of length at most n
Texts(alphabet, n) ==
    IF n = 0 THEN {<<>>}
    ELSE LET shorter == Texts(alphabet, n - 1)
         IN shorter \cup {Append(t, c) : t \in shorter, c \in alphabet}

LexInputs == Texts(LexAlphabet, MaxLexLen)

EofCount(toks) == Cardinality({i \in 1..Len(toks) : toks[i].token_type = "EOF"})

InitLex ==
    /\ input \in LexInputs
    /\ lx = LexerNew(input)
    /\ tokens = <<>>
    /\ pc = "lexing"
    /\ p = None
    /\ program = <<>>
    /\ attempt = None
    /\ round = 0
    /\ first = NoFirst
    /\ reader = <<>>
    /\ line_read = <<>>
    /\ output = <<>>

\* A call of Lexer::next_token by the lexer's owner
LexNextToken ==
    /\ pc = "lexing"
    /\ EofCount(tokens) <= MaxCallsAfterEof
    /\ lx' = next_token(lx).l
    /\ tokens' = Append(tokens, next_token(lx).tok)
    /\ UNCHANGED <<input, pc, p, program, attempt, round, first, reader, line_read, output>>

NextLex == LexNextToken

SpecLex == InitLex /\ [][NextLex]_vars

-----------------------------------------------------------------------------
(* Claims about the lexer *)

\* The index of the first EOF token among toks, 0 if there is none
FirstEof(toks) ==
    IF EofCount(toks) = 0 THEN 0
    ELSE CHOOSE i \in 1..Len(toks) :
            /\ toks[i].token_type = "EOF"
            /\ \A j \in 1..(i - 1) : toks[j].token_type # "EOF"

\* C8: Lexer totality. next_token returns EOF within one call per input
\* character plus one, and every token returned after the first EOF is an
\* EOF with an empty literal.
C8_EofReachedAndStable ==
    /\ Len(tokens) >= Len(input) + 1 =>
          \E i \in 1..(Len(input) + 1) : tokens[i].token_type = "EOF"
    /\ \A i, j \in 1..Len(tokens) :
          (i < j /\ tokens[i].token_type = "EOF") =>
              (tokens[j].token_type = "EOF" /\ tokens[j].literal = <<>>)

\* The whitespace the lexer is said to skip between tokens
ClaimedWhitespace == {" ", "\t", "\r", "\n"}

RECURSIVE SkipClaimedWhitespace(_)
SkipClaimedWhitespace(text) ==
    IF text # <<>> /\ Head(text) \in ClaimedWhitespace
    THEN SkipClaimedWhitespace(Tail(text)) ELSE text

KeywordTypes == {"FUNCTION", "LET", "IF", "ELSE", "RETURN", "TRUE", "FALSE"}

\* The literal of a token is a whole run: an identifier or keyword of
\* letters and underscores, an integer of digits, and the character after
\* it in the text (rest) does not continue the run
WholeRun(tok, rest) ==
    LET n == Len(tok.literal)
        letter(c) == is_ascii_alphabetic(c) \/ c = "_"
    IN /\ tok.token_type \in KeywordTypes \cup {"IDENT"} =>
             /\ \A k \in 1..n : letter(tok.literal[k])
             /\ Len(rest) > n => ~letter(rest[n + 1])
       /\ tok.token_type = "INT" =>
             /\ \A k \in 1..n : is_ascii_digit(tok.literal[k])
             /\ Len(rest) > n => ~is_ascii_digit(rest[n + 1])

RECURSIVE Reassembles(_, _)
\* text is the literals of toks in order, with only whitespace before,
\* between and after them; toks ends with the first EOF
Reassembles(text, toks) ==
    LET rest == SkipClaimedWhitespace(text)
        tok == Head(toks)
        n == Len(tok.literal)
    IN IF tok.token_type = "EOF" THEN rest = <<>>
       ELSE /\ n >= 1
            /\ Len(rest) >= n
            /\ SubSeq(rest, 1, n) = tok.literal
            /\ WholeRun(tok, rest)
            /\ Reassembles(SubSeq(rest, n + 1, Len(rest)), Tail(toks))

\* C9: once the lexer has returned its first EOF, the token literals, in
\* order and with only space, tab, CR and LF between them, are the input,
\* and an identifier or integer ends before the first character that is
\* not part of its run.
C9_LiteralsReassembleInput ==
    FirstEof(tokens) > 0 => Reassembles(input, SubSeq(tokens, 1, FirstEof(tokens)))

-----------------------------------------------------------------------------
(* Claims about the parser *)

RECURSIVE SplitWords(_)
\* The words of a line whose words are separated by single spaces
SplitWords(text) ==
    IF text = <<>> THEN <<>>
    ELSE LET spaces == {i \in 1..Len(text) : text[i] = " "}
             k == IF spaces = {} THEN Len(text) + 1
                  ELSE CHOOSE i \in spaces : \A j \in spaces : i <= j
         IN <<SubSeq(text, 1, k - 1)>> \o SplitWords(SubSeq(text, k + 1, Len(text)))

\* The words of a generated statement: the line without its final semicolon
StatementWords(text) == SplitWords(SubSeq(text, 1, Len(text) - 1))

\* The words at the odd positions (operands) and at the even positions
\* (operators) of operand operator operand ... operand
OperandsOf(ws) == [i \in 1..((Len(ws) + 1) \div 2) |-> ws[2 * i - 1]]

OperatorsOf(ws) == [i \in 1..(Len(ws) \div 2) |-> ws[2 * i]]

\* The precedence table as the claims state it: the higher the level, the
\* tighter the operator binds
ClaimedLevel(operator) ==
    CASE operator \in {<<"=","=">>, <<"!","=">>} -> 1
      [] operator \in {<<"<">>, <<">">>} -> 2
      [] operator \in {<<"+">>, <<"-">>} -> 3
      [] operator \in {<<"*">>, <<"/">>} -> 4

RECURSIVE Grouped(_, _)
\* The fully parenthesised grouping of operand operator ... operand by the
\* claimed table: the expression splits at its loosest operator, and at the
\* rightmost of them when there are several, so that equal operators group
\* to the left
Grouped(operands, operators) ==
    IF Len(operators) = 0 THEN operands[1]
    ELSE LET n == Len(operators)
             loosest == CHOOSE i \in 1..n :
                           \A j \in 1..n :
                              \/ ClaimedLevel(operators[i]) < ClaimedLevel(operators[j])
                              \/ /\ ClaimedLevel(operators[i]) = ClaimedLevel(operators[j])
                                 /\ j <= i
         IN <<"(">> \o Grouped(SubSeq(operands, 1, loosest), SubSeq(operators, 1, loosest - 1))
                \o <<" ">> \o operators[loosest] \o <<" ">>
                \o Grouped(SubSeq(operands, loosest + 1, n + 1),
                           SubSeq(operators, loosest + 1, n))
                \o <<")">>

\* C1: an expression statement of identifiers, integers, booleans and the
\* binary operators + - * / < > == != that parses without diagnostics is
\* one statement whose tree groups the operands by the precedence table,
\* equal neighbours to the left: its print is the grouping by the table;
\* `a + b * c + d / e - f;` prints as `(((a + (b * c)) + (d / e)) - f)` and
\* `5 > 4 == 3 < 4;` as `((5 > 4) == (3 < 4))`.
C1_GroupsByPrecedenceLeftAssociative ==
    (pc = "done" /\ p.errors = <<>>) =>
        /\ Len(program) = 1
        /\ program[1].kind = "Expression"
        /\ fmt_Expression(program[1].value)
              = Grouped(OperandsOf(StatementWords(input)), OperatorsOf(StatementWords(input)))
        /\ input = In_Mixed =>
              fmt_Program(program) = <<"(","(","(","a"," ","+"," ","(","b"," ","*"," ","c",")",")"," ","+"," ","(","d"," ","/"," ","e",")",")"," ","-"," ","f",")">>
        /\ input = In_Compare =>
              fmt_Program(program) = <<"(","(","5"," ",">"," ","4",")"," ","=","="," ","(","3"," ","<"," ","4",")",")">>

\* C1 happens: `a - 5 + true * b;` is parsed without diagnostics, the two
\* neighbours - and + of equal precedence grouped to the left, * below +
C1_Witness ==
    /\ pc = "done"
    /\ p.errors = <<>>
    /\ input = <<"a"," ","-"," ","5"," ","+"," ","t","r","u","e"," ","*"," ","b",";">>
    /\ Len(program) = 1
    /\ program[1].value.operator = <<"+">>
    /\ program[1].value.left.operator = <<"-">>
    /\ program[1].value.right.operator = <<"*">>

\* C2: when the print of a cleanly parsed Program has been parsed in turn
\* by a fresh lexer and parser, that parse is clean and its Program prints
\* as the first one did.
C2_PrintIsIdempotent ==
    (round = 2 /\ pc = "done") =>
        /\ p.errors = <<>>
        /\ fmt_Program(program) = first.print

\* The last call of parse_statement recorded a diagnostic
RecordedDiagnostic ==
    /\ attempt.n > 0
    /\ Len(attempt.after.errors) > Len(attempt.before.errors)

\* C3: a statement attempt in which a sub-parse recorded a diagnostic
\* yields no statement, so parse_program appends only statements parsed
\* without a diagnostic.
C3_DiagnosticYieldsNoStatement ==
    RecordedDiagnostic => IsNone(attempt.stmt)

\* The parser and the Option after the expression of the statement that
\* starts at q has been parsed; reached is FALSE when the statement ends
\* before its expression (a let without its name or its =)
StatementExpression(q) ==
    CASE is_curr_token(q, "LET") ->
            IF expect_peek(q, "IDENT").ok
                 /\ expect_peek(expect_peek(q, "IDENT").p, "ASSIGN").ok
            THEN [reached |-> TRUE,
                  v |-> call("parse_expression",
                             p_next_token(expect_peek(expect_peek(q, "IDENT").p, "ASSIGN").p),
                             LOWEST)]
            ELSE [reached |-> FALSE, v |-> R(q, None)]
      [] is_curr_token(q, "RETURN") ->
            [reached |-> TRUE, v |-> call("parse_expression", p_next_token(q), LOWEST)]
      [] OTHER ->
            [reached |-> TRUE, v |-> call("parse_expression", q, LOWEST)]

\* The expression of the last statement attempt was parsed and the token
\* after it is not a semicolon
SemicolonMissing ==
    /\ attempt.n > 0
    /\ StatementExpression(attempt.before).reached
    /\ ~IsNone(StatementExpression(attempt.before).v.r)
    /\ ~is_peek_token(StatementExpression(attempt.before).v.p, "SEMICOLON")

C5_IfElseParsesClean ==
    (round = 1 /\ pc = "done" /\ input \in {In_IfElse, In_If}) =>
        /\ p.errors = <<>>
        /\ Len(program) = 1
        /\ program[1].kind = "Expression"
        /\ program[1].value.kind = "IfExpression"
        /\ fmt_Expression(program[1].value.condition) = <<"(","x"," ","<"," ","y",")">>
        /\ Len(program[1].value.consequence.statements) = 1
        /\ fmt_Statement(program[1].value.consequence.statements[1]) = <<"x">>
        /\ input = In_If => IsNone(program[1].value.alternative)
        /\ input = In_IfElse =>
              /\ ~IsNone(program[1].value.alternative)
              /\ Len(program[1].value.alternative.statements) = 1
              /\ fmt_Statement(program[1].value.alternative.statements[1]) = <<"y">>

\* C6: every parameter of a function literal the parser yields comes from
\* an IDENT token, and `fn(1, 2) { };` and `fn(,) { };` record a diagnostic
\* and yield no function literal.
C6_ParametersAreIdentTokens ==
    /\ (attempt.n > 0 /\ attempt.stmt.kind = "Expression"
            /\ attempt.stmt.value.kind = "FunctionLiteral") =>
          \A i \in 1..Len(attempt.stmt.value.parameters) :
             attempt.stmt.value.parameters[i].token.token_type = "IDENT"
    /\ (round = 1 /\ pc = "done" /\ input \in {In_FnIntParams, In_FnCommaParam}) =>
          /\ p.errors # <<>>
          /\ \A i \in 1..Len(program) :
                ~(program[i].kind = "Expression" /\ program[i].value.kind = "FunctionLiteral")

\* The token kinds said to have a prefix parser
ClaimedPrefixKinds ==
    {"IDENT", "INT", "TRUE", "FALSE", "BANG", "MINUS", "LPAREN", "IF", "FUNCTION"}

\* C7: a statement that is not a let or return and starts on a token of a
\* kind other than IDENT, INT, TRUE, FALSE, BANG, MINUS, LPAREN, IF and
\* FUNCTION yields no node and records exactly a no-prefix-parse-function
\* diagnostic for that token; no statement is a stand-alone block.
C7_PrefixParsersAreTheNine ==
    /\ (attempt.n > 0
            /\ attempt.before.curr_token.token_type
                  \notin ClaimedPrefixKinds \cup {"LET", "RETURN"}) =>
          /\ IsNone(attempt.stmt)
          /\ attempt.after.errors
                = Append(attempt.before.errors,
                         ParserErrorAt(attempt.before.curr_token, "no prefix parse function",
                                       "", attempt.before.curr_token.token_type, <<>>))
    /\ (attempt.n > 0 /\ attempt.stmt.kind = "Expression") =>
          attempt.stmt.value.kind # "BlockStatement"

RECURSIVE Skeleton(_)
\* The print of an expression of operators and calls with every call
\* written as @
Skeleton(e) ==
    CASE e.kind = "CallExpression" -> <<"@">>
      [] e.kind = "PrefixExpression" -> <<"(">> \o e.operator \o Skeleton(e.right) \o <<")">>
      [] e.kind = "InfixExpression" ->
            <<"(">> \o Skeleton(e.left) \o <<" ">> \o e.operator \o <<" ">>
                    \o Skeleton(e.right) \o <<")">>
      [] OTHER -> fmt_Expression(e)

RECURSIVE CallsIn(_)
\* The calls of an expression of operators and calls, from left to right
CallsIn(e) ==
    CASE e.kind = "CallExpression" -> <<e>>
      [] e.kind = "PrefixExpression" -> CallsIn(e.right)
      [] e.kind = "InfixExpression" -> CallsIn(e.left) \o CallsIn(e.right)
      [] OTHER -> <<>>

\* The position of the first word w among ws, 0 if there is none
WordIndex(ws, w) ==
    IF \E i \in 1..Len(ws) : ws[i] = w
    THEN CHOOSE i \in 1..Len(ws) : ws[i] = w /\ \A j \in 1..(i - 1) : ws[j] # w
    ELSE 0

RECURSIVE SplitArguments(_)
\* The argument expressions, as words, of the words between ( and )
SplitArguments(ws) ==
    IF ws = <<>> THEN <<>>
    ELSE IF WordIndex(ws, <<",">>) = 0 THEN <<ws>>
    ELSE <<SubSeq(ws, 1, WordIndex(ws, <<",">>) - 1)>>
            \o SplitArguments(SubSeq(ws, WordIndex(ws, <<",">>) + 1, Len(ws)))

\* The grouping claimed for [operand operator] [prefix] call [operator
\* operand]: the call, with its prefix operator if any, is one operand
ClaimedCallSkeleton(pre, post) ==
    Grouped((IF Len(pre) = 2 THEN <<pre[1]>> ELSE <<>>)
                \o <<IF Len(pre) = 1 THEN <<"(">> \o pre[1] \o <<"@", ")">> ELSE <<"@">>>>
                \o (IF Len(post) = 2 THEN <<post[2]>> ELSE <<>>),
            (IF Len(pre) = 2 THEN <<pre[2]>> ELSE <<>>)
                \o (IF Len(post) = 2 THEN <<post[1]>> ELSE <<>>))

\* The call c has the callee add and the arguments, as words, args: as many,
\* in the same order, each grouped as an expression of its own
IsCallOfAdd(c, args) ==
    /\ c.kind = "CallExpression"
    /\ c.function.kind = "Identifier"
    /\ c.function.value = <<"a","d","d">>
    /\ Len(c.arguments) = Len(args)
    /\ \A i \in 1..Len(args) :
          fmt_Expression(c.arguments[i]) = Grouped(OperandsOf(args[i]), OperatorsOf(args[i]))

\* C10 over the generated statements [a op] [prefix] add ( args ) [op d] ;
\* stmt and errors are what the first statement attempt yielded and recorded
CallBuilt(ws, stmt, errors) ==
    LET open == WordIndex(ws, <<"(">>)
        close == WordIndex(ws, <<")">>)
    IN IF close = 0
       THEN IsNone(stmt) /\ errors # <<>>
       ELSE /\ errors = <<>>
            /\ stmt.kind = "Expression"
            /\ Skeleton(stmt.value)
                  = ClaimedCallSkeleton(SubSeq(ws, 1, open - 2), SubSeq(ws, close + 1, Len(ws)))
            /\ Len(CallsIn(stmt.value)) = 1
            /\ IsCallOfAdd(CallsIn(stmt.value)[1],
                           SplitArguments(SubSeq(ws, open + 1, close - 1)))

\* C10: when ( follows an expression a call is built whose callee is that
\* expression and whose arguments are the comma-separated expressions in
\* source order, each grouped on its own (none for `()`); without the
\* closing ) no statement is yielded and a diagnostic is recorded; the call
\* is one operand of the prefix and binary operators around it;
\* `add(1, 2 * 3, 4 + 5);` has the arguments 1, (2 * 3), (4 + 5) and in
\* `a + add(b * c) + d;` the call is the right operand of the first +.
C10_CallExpressionIsBuilt ==
    attempt.n = 1 =>
        /\ input \notin {In_Call, In_CallInSum} =>
              CallBuilt(StatementWords(input), attempt.stmt, attempt.after.errors)
        /\ input = In_Call =>
              /\ attempt.after.errors = <<>>
              /\ attempt.stmt.kind = "Expression"
              /\ IsCallOfAdd(attempt.stmt.value, <<<<<<"1">>>>, <<<<"2">>, <<"*">>, <<"3">>>>, <<<<"4">>, <<"+">>, <<"5">>>>>>)
        /\ input = In_CallInSum =>
              /\ attempt.after.errors = <<>>
              /\ attempt.stmt.kind = "Expression"
              /\ Skeleton(attempt.stmt.value) = <<"(","(","a"," ","+"," ","@",")"," ","+"," ","d",")">>
              /\ attempt.stmt.value.left.operator = <<"+">>
              /\ IsCallOfAdd(attempt.stmt.value.left.right, <<<<<<"b">>, <<"*">>, <<"c">>>>>>)

\* C10 happens: in `a + add(b * c) + d;` a call with one argument is built
\* as the right operand of the first +
C10_Witness ==
    /\ attempt.n = 1
    /\ input = In_CallInSum
    /\ attempt.stmt.kind = "Expression"
    /\ attempt.stmt.value.left.right.kind = "CallExpression"
    /\ Len(attempt.stmt.value.left.right.arguments) = 1

-----------------------------------------------------------------------------
(* Prefix operators *)

\* The most prefix operators stacked on one operand
MaxPrefixes == 2

\* The most operands of a generated expression with prefix operators
MaxPrefixOperands == 2

RECURSIVE PrefixChains(_)
\* The stacks of at most n prefix operators, written without spaces
PrefixChains(n) ==
    IF n = 0 THEN {<<>>}
    ELSE LET shorter == PrefixChains(n - 1)
         IN shorter \cup {<<c>> \o t : c \in {"!", "-"}, t \in shorter}

PrefixOperandRows ==
    {<<<<"a">>, <<"b">>, <<"c">>>>, <<<<"5">>, <<"t","r","u","e">>, <<"1","0">>>>}

PrefixBinaryOperators == {<<"+">>, <<"*">>, <<"=","=">>, <<"<">>}

RECURSIVE PrefixedWords(_, _)
\* operand (operator operand)*, n operands, each under a stack of prefixes
PrefixedWords(row, n) ==
    IF n = 1 THEN {<<c \o row[1]>> : c \in PrefixChains(MaxPrefixes)}
    ELSE {ws \o <<o, c \o row[n]>> : ws \in PrefixedWords(row, n - 1),
                                     o \in PrefixBinaryOperators,
                                     c \in PrefixChains(MaxPrefixes)}

PrefixInputs ==
    {Join(ws) \o <<";">> :
        ws \in UNION {PrefixedWords(row, n) : row \in PrefixOperandRows,
                                              n \in 1..MaxPrefixOperands}}

InitPrefix == InitParser(PrefixInputs)

NextPrefix == ParseProgramLoop \/ ParseProgramReturn

SpecPrefix == InitPrefix /\ [][NextPrefix]_vars

RECURSIVE ClaimedPrefixPrint(_)
\* The print the claim gives an operand under its prefix operators: they
\* nest from right to left, each in its own parentheses
ClaimedPrefixPrint(word) ==
    IF Head(word) \in {"!", "-"} /\ Len(word) > 1
    THEN <<"(", Head(word)>> \o ClaimedPrefixPrint(Tail(word)) \o <<")">>
    ELSE word

\* The print of operand (operator operand)*: the prefix expressions are the
\* operands the binary operators group, by the precedence table
ClaimedPrefixedPrint(ws) ==
    Grouped([i \in 1..Len(OperandsOf(ws)) |-> ClaimedPrefixPrint(OperandsOf(ws)[i])],
            OperatorsOf(ws))

RECURSIVE NoInfixUnderPrefix(_)
\* No PrefixExpression of the tree has an InfixExpression as its operand
NoInfixUnderPrefix(e) ==
    CASE e.kind = "PrefixExpression" ->
           e.right.kind # "InfixExpression" /\ NoInfixUnderPrefix(e.right)
      [] e.kind = "InfixExpression" ->
           NoInfixUnderPrefix(e.left) /\ NoInfixUnderPrefix(e.right)
      [] OTHER -> TRUE

\* C11: an expression statement of operands under stacked prefix operators
\* `!` and `-`, joined by binary operators, parses clean; the prefix
\* operators nest right to left around their operand (`!-a;` prints
\* `(!(-a))`), a binary operator applies to the whole prefix expression
\* (`-a * b;` prints `((-a) * b)`), and no PrefixExpression has an
\* InfixExpression as operand.
C11_PrefixTakesOperandAtPrefix ==
    pc = "done" =>
        /\ p.errors = <<>>
        /\ Len(program) = 1
        /\ program[1].kind = "Expression"
        /\ fmt_Expression(program[1].value) = ClaimedPrefixedPrint(StatementWords(input))
        /\ NoInfixUnderPrefix(program[1].value)
        /\ input = <<"!","-","a",";">> => fmt_Program(program) = <<"(","!","(","-","a",")",")">>
        /\ input = <<"-","a"," ","*"," ","b",";">> => fmt_Program(program) = <<"(","(","-","a",")"," ","*"," ","b",")">>

\* C11 happens: `!-a * b;` has been parsed into a product whose left side
\* is the ! of the - of a
C11_Witness ==
    /\ pc = "done"
    /\ input = <<"!","-","a"," ","*"," ","b",";">>
    /\ Len(program) = 1
    /\ program[1].value.kind = "InfixExpression"
    /\ program[1].value.left.kind = "PrefixExpression"
    /\ program[1].value.left.right.kind = "PrefixExpression"
    /\ fmt_Expression(program[1].value) = <<"(","(","!","(","-","a",")",")"," ","*"," ","b",")">>

-----------------------------------------------------------------------------
(* Integer literals *)

\* The most zeros written before a generated integer
MaxLeadingZeros == 2

RECURSIVE Zeros(_)
Zeros(n) == IF n = 0 THEN <<>> ELSE <<"0">> \o Zeros(n - 1)

\* Integers without leading zeros: small ones, the neighbours of i64::MAX
\* in its last digit, and larger ones of 18 to 20 digits
IntBases ==
    {<<"0">>, <<"7">>, <<"1","0">>, <<"8","3","8","3","8","3">>}
    \cup {<<"9","2","2","3","3","7","2","0","3","6","8","5","4","7","7","5","8","0">> \o <<c>> :
             c \in {"0","1","2","3","4","5","6","7","8","9"}}
    \cup {<<"9","2","2","3","3","7","2","0","3","6","8","5","4","7","7","5","8","1","7">>, <<"9","2","2","3","3","7","2","0","3","6","8","5","4","7","7","5","7","9","9">>, <<"9","2","2","3","3","7","2","0","3","7","0","0","0","0","0","0","0","0","0">>,
          <<"9","9","9","9","9","9","9","9","9","9","9","9","9","9","9","9","9","9">>, <<"9","9","9","9","9","9","9","9","9","9","9","9","9","9","9","9","9","9","9">>, <<"1","0","0","0","0","0","0","0","0","0","0","0","0","0","0","0","0","0","0","0">>,
          <<"1","8","4","4","6","7","4","4","0","7","3","7","0","9","5","5","1","6","1","5">>, <<"1","8","4","4","6","7","4","4","0","7","3","7","0","9","5","5","1","6","1","6">>}

IntDigits == {Zeros(k) \o b : k \in 0..MaxLeadingZeros, b \in IntBases}

\* What stands before and after the integer in a generated line
IntContexts ==
    {<<<<>>, <<";">>>>, <<<<"-">>, <<";">>>>, <<<<"l","e","t"," ","x"," ","="," ">>, <<";">>>>, <<<<"r","e","t","u","r","n"," ">>, <<";">>>>,
     <<<<"x"," ","+"," ">>, <<";">>>>, <<<<"(">>, <<")",";">>>>, <<<<"a","d","d","(">>, <<")",";">>>>}

IntInputs == {c[1] \o d \o c[2] : c \in IntContexts, d \in IntDigits}

InitInt == InitParser(IntInputs)

NextInt == ParseProgramLoop \/ ParseProgramReturn

SpecInt == InitInt /\ [][NextInt]_vars

RECURSIVE ParsersFrom(_, _)
\* The parser q and the parsers after 1, 2, ... k more calls of
\* Parser::next_token, up to the one that has the last EOF as curr_token
ParsersFrom(q, k) ==
    IF k = 0 \/ (is_curr_token(q, "EOF") /\ is_peek_token(q, "EOF")
                    /\ q.l.next_read_position > byte_len(q.l.input))
    THEN {q}
    ELSE {q} \cup ParsersFrom(p_next_token(q), k - 1)

\* The parsers over text with its first, second, ... token as curr_token
ParsersOver(text) == ParsersFrom(ParserNew(LexerNew(text)), Len(text) + 1)

\* The digit a character stands for
DigitOf(c) == CHOOSE n \in 0..9 : <<"0","1","2","3","4","5","6","7","8","9">>[n + 1] = c

RECURSIVE DecimalValue(_)
\* The decimal value of at most nine digits
DecimalValue(d) ==
    IF d = <<>> THEN 0
    ELSE DecimalValue(SubSeq(d, 1, Len(d) - 1)) * 10 + DigitOf(d[Len(d)])

\* The decimal value of at most 27 digits, as three numbers below 10^9:
\* value = limbs[1] * 10^18 + limbs[2] * 10^9 + limbs[3]
DecimalLimbs(d) ==
    LET padded == Zeros(27 - Len(d)) \o d
    IN <<DecimalValue(SubSeq(padded, 1, 9)), DecimalValue(SubSeq(padded, 10, 18)),
         DecimalValue(SubSeq(padded, 19, 27))>>

LimbsLeq(a, b) ==
    \/ a[1] < b[1]
    \/ a[1] = b[1] /\ a[2] < b[2]
    \/ a[1] = b[1] /\ a[2] = b[2] /\ a[3] <= b[3]

\* 2^63 - 1 = 9 223372036 854775807
ClaimedI64Max == <<9, 223372036, 854775807>>

IsDigits(literal) ==
    literal # <<>> /\ \A i \in 1..Len(literal) : literal[i] \in {"0","1","2","3","4","5","6","7","8","9"}

RECURSIVE IntegerLiteralsIn(_)
\* The IntegerLiteral nodes of a tree (of an expression, a statement, a
\* block or nothing)
IntegerLiteralsIn(e) ==
    CASE e.kind = "IntegerLiteral" -> {e}
      [] e.kind = "PrefixExpression" -> IntegerLiteralsIn(e.right)
      [] e.kind = "InfixExpression" -> IntegerLiteralsIn(e.left) \cup IntegerLiteralsIn(e.right)
      [] e.kind = "CallExpression" ->
           IntegerLiteralsIn(e.function)
           \cup UNION {IntegerLiteralsIn(e.arguments[i]) : i \in 1..Len(e.arguments)}
      [] e.kind = "IfExpression" ->
           IntegerLiteralsIn(e.condition) \cup IntegerLiteralsIn(e.consequence)
           \cup IntegerLiteralsIn(e.alternative)
      [] e.kind = "FunctionLiteral" -> IntegerLiteralsIn(e.body)
      [] e.kind = "BlockStatement" ->
           UNION {IntegerLiteralsIn(e.statements[i]) : i \in 1..Len(e.statements)}
      [] e.kind \in {"Let", "Return", "Expression"} -> IntegerLiteralsIn(e.value)
      [] OTHER -> {}

\* parse_integer_literal on the INT token tok as the claim has it: in range,
\* the node with the decimal value of the digits and no diagnostic; out of
\* range, no node and one invalid-integer diagnostic at the token
IntegerLiteralAsClaimed(q) ==
    LET a == parse_integer_literal(q)
        d == q.curr_token.literal
    IN IF LimbsLeq(DecimalLimbs(d), ClaimedI64Max)
       THEN /\ a.r.kind = "IntegerLiteral"
            /\ a.r.token = q.curr_token
            /\ DecimalLimbs(a.r.value) = DecimalLimbs(d)
            /\ a.p.errors = q.errors
       ELSE /\ IsNone(a.r)
            /\ Len(a.p.errors) = Len(q.errors) + 1
            /\ a.p.errors[Len(a.p.errors)].kind = "invalid integer literal"
            /\ a.p.errors[Len(a.p.errors)].arg = d
            /\ a.p.errors[Len(a.p.errors)].span
                  = [line |-> q.curr_token.line, column |-> q.curr_token.column]

\* The INT tokens of a text
IntTokens(text) ==
    {tok \in {q.curr_token : q \in ParsersOver(text)} : tok.token_type = "INT"}

\* C12: parse_integer_literal on an INT token of digits d yields the
\* IntegerLiteral with the decimal value of d when that is at most 2^63 - 1,
\* and otherwise no node and an invalid-integer diagnostic at the token; a
\* line whose integer is in range parses clean with that IntegerLiteral in
\* its Program, one whose integer is out of range records a diagnostic, and
\* every IntegerLiteral of a Program has the value of its digits, from 0 to
\* 2^63 - 1 (a `-` before the digits is a MINUS token).
C12_IntegerLiteralInRange ==
    /\ (pc = "loop" /\ attempt.n = 0) =>
          \A q \in ParsersOver(input) :
             (is_curr_token(q, "INT") /\ IsDigits(q.curr_token.literal)) =>
                IntegerLiteralAsClaimed(q)
    /\ pc = "done" =>
          /\ \A i \in 1..Len(program) : \A e \in IntegerLiteralsIn(program[i]) :
                /\ IsDigits(e.value)
                /\ LimbsLeq(DecimalLimbs(e.value), ClaimedI64Max)
                /\ DecimalLimbs(e.value) = DecimalLimbs(e.token.literal)
          /\ \A tok \in IntTokens(input) :
                IF LimbsLeq(DecimalLimbs(tok.literal), ClaimedI64Max)
                THEN /\ p.errors = <<>>
                     /\ \E i \in 1..Len(program) : \E e \in IntegerLiteralsIn(program[i]) :
                           e.token = tok
                ELSE \E j \in 1..Len(p.errors) :
                        /\ p.errors[j].kind = "invalid integer literal"
                        /\ p.errors[j].span = [line |-> tok.line, column |-> tok.column]
          /\ input = <<"-","9","2","2","3","3","7","2","0","3","6","8","5","4","7","7","5","8","0","7",";">> =>
                fmt_Program(program) = <<"(","-","9","2","2","3","3","7","2","0","3","6","8","5","4","7","7","5","8","0","7",")">>

\* C12 happens: `-9223372036854775808;` has been lexed as MINUS and INT, the
\* INT is out of range, and the line ends with the invalid-integer
\* diagnostic at column 2 and without an IntegerLiteral
C12_Witness ==
    /\ pc = "done"
    /\ input = <<"-","9","2","2","3","3","7","2","0","3","6","8","5","4","7","7","5","8","0","8",";">>
    /\ \E q \in ParsersOver(input) : is_curr_token(q, "MINUS") /\ is_peek_token(q, "INT")
    /\ \A i \in 1..Len(program) : IntegerLiteralsIn(program[i]) = {}
    /\ p.errors[1].kind = "invalid integer literal"
    /\ p.errors[1].span = [line |-> 1, column |-> 2]

-----------------------------------------------------------------------------
(* Robustness of the parser *)

\* How often the character c stands in text
CountOf(text, c) == Cardinality({i \in 1..Len(text) : text[i] = c})

\* text opens more parentheses or braces than it closes
Unclosed(text) ==
    \/ CountOf(text, "(") > CountOf(text, ")")
    \/ CountOf(text, "{") > CountOf(text, "}")

RECURSIVE LexersFrom(_, _)
\* The lexer l and the lexers after 1, 2, ... k more calls of read_char:
\* every state the lexer is in while the text is lexed
LexersFrom(l, k) == IF k = 0 THEN {l} ELSE {l} \cup LexersFrom(read_char(l), k - 1)

\* The unwrap of read_char and peek_char finds a character: the read head
\* is at the end of the input or at the first byte of a character
ReadHeadOnCharacter(l) ==
    \/ l.next_read_position >= byte_len(l.input)
    \/ \E k \in 1..Len(l.input) : byte_offset(l.input, k) = l.next_read_position

\* C13: Parser::new and parse_program return normally on every input: the
\* lexer never unwraps a missing character, and when the input leaves a
\* `(` or a `{` unclosed (an unclosed group, block or call argument list)
\* parse_program returns with at least one diagnostic.
C13_ReturnsNormallyWithDiagnostic ==
    /\ \A l \in LexersFrom(LexerNew(input), Len(input) + 2) : ReadHeadOnCharacter(l)
    /\ pc \in {"loop", "done"}
    /\ (pc = "done" /\ Unclosed(input)) => p.errors # <<>>

-----------------------------------------------------------------------------
(* Termination of parse_program *)

\* How far the lexer of parser q has read: every token handed out moves it on
Consumed(q) == q.l.next_read_position

\* One iteration of the while loop of parse_block_statement
block_iteration(q) == call("parse_statement", p_next_token(q), None).p

\* One iteration of the while loop of parse_function_parameters
parameters_iteration(q) == parse_identifier(p_next_token(p_next_token(q))).p

\* One iteration of the while loop of parse_call_arguments
call_arguments_iteration(q) ==
    call("parse_expression", p_next_token(p_next_token(q)), LOWEST).p

\* One iteration of the while loop of parse_expression, left being the
\* expression parsed so far
infix_iteration(q, left) ==
    call(infix_parse_fns(q.peek_token.token_type), p_next_token(q), left).p

\* An iteration of each inner loop that can start at parser q consumes a token
InnerLoopsConsume(q) ==
    /\ Consumed(p_next_token(q)) > Consumed(q)
    /\ (~is_peek_token(q, "RBRACE") /\ ~is_peek_token(q, "EOF"))
          => Consumed(block_iteration(q)) > Consumed(q)
    /\ is_peek_token(q, "COMMA")
          => /\ Consumed(parameters_iteration(q)) > Consumed(q)
             /\ Consumed(call_arguments_iteration(q)) > Consumed(q)
    /\ (/\ ~is_peek_token(q, "SEMICOLON")
        /\ LOWEST < peek_precedence(q)
        /\ infix_parse_fns(q.peek_token.token_type) # "none")
          => Consumed(infix_iteration(q, parse_identifier(q).r)) > Consumed(q)

\* The iteration of parse_program's loop just made consumed a token and
\* kept the diagnostics recorded before it
DriverLoopConsumes ==
    attempt.n > 0 =>
        /\ Consumed(p) > Consumed(attempt.before)
        /\ Len(p.errors) >= Len(attempt.before.errors)
        /\ SubSeq(p.errors, 1, Len(attempt.before.errors)) = attempt.before.errors

\* What is left of the input to parser q, in bytes and the two EOF tokens
\* that Parser::new and the last statement read ahead
Remaining(q) == byte_len(q.l.input) + 2 - Consumed(q)

\* C14: parse_program terminates on every input and never aborts on an
\* error: each iteration of the driver loop, and of the block, argument
\* list, parameter list and Pratt loops, consumes at least one token of an
\* input that has finitely many, the loop goes on while the current token
\* is not EOF, and when parse_program has returned the current token is
\* EOF however many diagnostics were recorded.
C14_ParseProgramTerminates ==
    /\ DriverLoopConsumes
    /\ (attempt.n = 0 /\ pc = "loop") => \A q \in ParsersOver(input) : InnerLoopsConsume(q)
    /\ (pc = "loop" /\ ~is_curr_token(p, "EOF")) => Remaining(p) >= 0
    /\ attempt.n <= byte_len(input) + 2
    /\ pc = "done" => is_curr_token(p, "EOF")

\* parse_program has returned after three iterations that recorded
\* diagnostics and none that made a statement
C14_Witness ==
    /\ pc = "done"
    /\ attempt.n >= 3
    /\ Len(p.errors) >= 3
    /\ program = <<>>
    /\ is_curr_token(p, "EOF")

-----------------------------------------------------------------------------
(* expect_peek *)

\* The kinds of token (enum TokenType)
TokenTypes ==
    {"ILLEGAL", "EOF", "IDENT", "INT", "ASSIGN", "PLUS", "MINUS", "BANG", "SLASH",
     "ASTERISK", "LT", "GT", "NOTEQ", "EQ", "COMMA", "SEMICOLON", "LPAREN", "RPAREN",
     "LBRACE", "RBRACE", "LBRACKET", "RBRACKET", "COLON", "FUNCTION", "LET", "IF",
     "ELSE", "RETURN", "TRUE", "FALSE"}

\* expect_peek(token_type) on parser q found the kind it expected: the peek
\* token became the current token, the next token of the lexer the peek
\* token, and nothing was recorded
ExpectPeekAdvanced(q, e) ==
    /\ e.ok
    /\ e.p.curr_token = q.peek_token
    /\ e.p.peek_token = next_token(q.l).tok
    /\ e.p.l = next_token(q.l).l
    /\ e.p.errors = q.errors

\* expect_peek(token_type) on parser q found another kind: one diagnostic
\* more, at the peek token, naming both kinds, and the cursor where it was
ExpectPeekRefused(q, token_type, e) ==
    /\ ~e.ok
    /\ Len(e.p.errors) = Len(q.errors) + 1
    /\ SubSeq(e.p.errors, 1, Len(q.errors)) = q.errors
    /\ e.p.errors[Len(e.p.errors)].span =
          [line |-> q.peek_token.line, column |-> q.peek_token.column]
    /\ e.p.errors[Len(e.p.errors)].kind = "expected token"
    /\ e.p.errors[Len(e.p.errors)].expected = token_type
    /\ e.p.errors[Len(e.p.errors)].got = q.peek_token.token_type
    /\ e.p.curr_token = q.curr_token
    /\ e.p.peek_token = q.peek_token
    /\ e.p.l = q.l

ExpectPeekAsClaimed(q) ==
    \A token_type \in TokenTypes :
        IF q.peek_token.token_type = token_type
        THEN ExpectPeekAdvanced(q, expect_peek(q, token_type))
        ELSE ExpectPeekRefused(q, token_type, expect_peek(q, token_type))

\* C15: expect_peek(kind) advances the cursor by exactly one token, records
\* nothing and returns success when the peek token has the given kind;
\* otherwise it appends exactly one diagnostic, whose span is the peek
\* token's line and column and which names the expected and the actual
\* kind, returns failure, and leaves the current token, the peek token and
\* the lexer where they were.
C15_ExpectPeek ==
    pc = "loop" => ExpectPeekAsClaimed(p) /\ ExpectPeekAsClaimed(attempt.after)

\* A let statement whose name was found by expect_peek(IDENT) and whose `=`
\* was not found by expect_peek(ASSIGN): the one diagnostic is the one of
\* the second call
C15_Witness ==
    /\ attempt.n = 1
    /\ is_curr_token(attempt.before, "LET")
    /\ is_peek_token(attempt.before, "IDENT")
    /\ is_curr_token(attempt.after, "IDENT")
    /\ is_peek_token(attempt.after, "INT")
    /\ attempt.after = expect_peek(expect_peek(attempt.before, "IDENT").p, "ASSIGN").p
    /\ Len(attempt.after.errors) = 1
    /\ attempt.after.errors[1].expected = "ASSIGN"
    /\ attempt.after.errors[1].got = "INT"
    /\ ExpectPeekAdvanced(attempt.before, expect_peek(attempt.before, "IDENT"))
    /\ ExpectPeekRefused(expect_peek(attempt.before, "IDENT").p, "ASSIGN",
                         expect_peek(expect_peek(attempt.before, "IDENT").p, "ASSIGN"))

-----------------------------------------------------------------------------
(* A parse function that returns None has recorded a diagnostic *)

\* The precedences parse_expression is called with
Precedences == {LOWEST, EQUALS, LESSGREATER, SUM, PRODUCT, PREFIX, CALL}

\* The parse function returned a: a node, or more diagnostics than parser q had
NodeOrDiagnostic(q, a) == IsNone(a.r) => Len(a.p.errors) > Len(q.errors)

\* parse_statement, parse_expression and the prefix parse function of the
\* current token, called on parser q
OnCurrentToken(q) ==
    /\ NodeOrDiagnostic(q, call("parse_statement", q, None))
    /\ \A precedence \in Precedences :
          NodeOrDiagnostic(q, call("parse_expression", q, precedence))
    /\ prefix_parse_fns(q.curr_token.token_type) # "none"
          => NodeOrDiagnostic(q, call(prefix_parse_fns(q.curr_token.token_type), q, None))

\* The infix parse function of the current token, called on parser q with
\* the expression left before it
OnOperator(q, left) ==
    infix_parse_fns(q.curr_token.token_type) # "none"
        => NodeOrDiagnostic(q, call(infix_parse_fns(q.curr_token.token_type), q, left))

\* C16: None means a diagnostic was recorded: whenever parse_statement,
\* parse_expression or a prefix or infix parse function returns no node,
\* the diagnostic list is strictly longer at its return than it was when
\* the function was entered.
C16_NoneMeansDiagnostic ==
    /\ attempt.n > 0
          => NodeOrDiagnostic(attempt.before, [p |-> attempt.after, r |-> attempt.stmt])
    /\ (attempt.n = 0 /\ pc = "loop") =>
          \A q \in ParsersOver(input) :
              /\ OnCurrentToken(q)
              /\ OnOperator(p_next_token(q), parse_identifier(q).r)

\* parse_statement returned None for a statement that starts with `(`: the
\* group was not closed, and expect_peek recorded it
C16_Witness ==
    /\ attempt.n = 1
    /\ is_curr_token(attempt.before, "LPAREN")
    /\ IsNone(attempt.stmt)
    /\ IsNone(call("parse_grouped_expression", attempt.before, None).r)
    /\ attempt.before.errors = <<>>
    /\ Len(attempt.after.errors) = 1
    /\ attempt.after.errors[1].expected = "RPAREN"

-----------------------------------------------------------------------------
(* Positions of tokens *)

RECURSIVE TokenStart(_, _)
\* The index of the first character of text at or after index k that
\* skip_white_space does not skip, Len(text) + 1 if there is none
TokenStart(text, k) ==
    IF k <= Len(text) /\ is_ascii_whitespace(text[k]) THEN TokenStart(text, k + 1) ELSE k

\* The 1-indexed line of the character at index k of text: one more than
\* the newlines before it
LineOf(text, k) == 1 + Cardinality({j \in 1..(k - 1) : text[j] = "\n"})

\* The 1-indexed column of the character at index k of text: counted from
\* the character after the last newline before it
ColumnOf(text, k) ==
    Cardinality({j \in 1..k : \A i \in j..(k - 1) : text[i] # "\n"})

RECURSIVE PositionsAsClaimed(_, _, _)
\* Each of toks, the tokens lexed from index k of text on, has the line and
\* column of the first character of its literal, and an EOF those of the
\* index one past the last character
PositionsAsClaimed(text, toks, k) ==
    IF toks = <<>> THEN TRUE
    ELSE /\ Head(toks).line = LineOf(text, TokenStart(text, k))
         /\ Head(toks).column = ColumnOf(text, TokenStart(text, k))
         /\ IF Head(toks).token_type = "EOF"
            THEN TokenStart(text, k) = Len(text) + 1
            ELSE PositionsAsClaimed(text, Tail(toks),
                                    TokenStart(text, k) + Len(Head(toks).literal))

\* The tokens up to the first EOF, all of them if there is no EOF yet
UpToFirstEof(toks) ==
    IF FirstEof(toks) = 0 THEN toks ELSE SubSeq(toks, 1, FirstEof(toks))

\* C17: every token next_token returns before the first EOF carries the
\* 1-indexed line and column of the first character of its literal in the
\* input, each newline before it adding one to the line and starting the
\* columns again at 1, and the first EOF carries the position one past the
\* last character.
C17_TokenPositions == PositionsAsClaimed(input, UpToFirstEof(tokens), 1)

-----------------------------------------------------------------------------
(* The two-character operators *)

\* The token that starts with character c, an `=` or a `!`, followed by
\* the character d is said to be
ClaimedOperator(c, d) ==
    IF d = "="
    THEN [token_type |-> IF c = "=" THEN "EQ" ELSE "NOTEQ", literal |-> <<c, d>>]
    ELSE [token_type |-> IF c = "=" THEN "ASSIGN" ELSE "BANG", literal |-> <<c>>]

\* The character at index k of text, NUL past its end
CharAt(text, k) == IF k <= Len(text) THEN text[k] ELSE NUL

\* The token after an operator, if already lexed, starts at the first
\* character at or after index k of text that is not skipped
StartsAt(text, toks, k) ==
    toks # <<>> =>
        /\ Head(toks).line = LineOf(text, TokenStart(text, k))
        /\ Head(toks).column = ColumnOf(text, TokenStart(text, k))

RECURSIVE OperatorsAsClaimed(_, _, _)
\* Of toks, the tokens lexed from index k of text on, each that starts
\* with `=` or `!` is the one token claimed and the token after it starts
\* right after it
OperatorsAsClaimed(text, toks, k) ==
    IF toks = <<>> \/ Head(toks).token_type = "EOF" THEN TRUE
    ELSE IF CharAt(text, TokenStart(text, k)) \in {"=", "!"}
    THEN /\ Head(toks).token_type =
               ClaimedOperator(text[TokenStart(text, k)],
                               CharAt(text, TokenStart(text, k) + 1)).token_type
         /\ Head(toks).literal =
               ClaimedOperator(text[TokenStart(text, k)],
                               CharAt(text, TokenStart(text, k) + 1)).literal
         /\ StartsAt(text, Tail(toks), TokenStart(text, k) + Len(Head(toks).literal))
         /\ OperatorsAsClaimed(text, Tail(toks),
                               TokenStart(text, k) + Len(Head(toks).literal))
    ELSE OperatorsAsClaimed(text, Tail(toks), TokenStart(text, k) + Len(Head(toks).literal))

\* The kinds of the tokens toks
KindsOf(toks) == [i \in 1..Len(toks) |-> toks[i].token_type]

\* C18: `==` and `!=` lex as single tokens: at an `=` or `!` followed by
\* `=` exactly one token, EQ or NOTEQ, with the two-character literal is
\* returned and two characters are consumed, so that the next token starts
\* at the character right after the operator; followed by anything else,
\* ASSIGN or BANG is returned and one character is consumed. `===` lexes
\* as EQ, ASSIGN and `!=1` as NOTEQ, INT.
C18_TwoCharacterOperators ==
    /\ OperatorsAsClaimed(input, UpToFirstEof(tokens), 1)
    /\ (input = <<"=", "=", "=">> /\ Len(tokens) >= 3)
          => KindsOf(SubSeq(tokens, 1, 3)) = <<"EQ", "ASSIGN", "EOF">>
    /\ (input = <<"!", "=", "1">> /\ Len(tokens) >= 3)
          => KindsOf(SubSeq(tokens, 1, 3)) = <<"NOTEQ", "INT", "EOF">>

\* `===` has been lexed to its end: `==` at column 1, `=` at column 3
C18_Witness ==
    /\ input = <<"=", "=", "=">>
    /\ Len(tokens) = 3
    /\ tokens[1] = Token("EQ", <<"=", "=">>, 1, 1)
    /\ tokens[2] = Token("ASSIGN", <<"=">>, 1, 3)
    /\ tokens[3].token_type = "EOF"

-----------------------------------------------------------------------------
(* Keywords and identifiers *)

\* The keywords
KeywordWords ==
    {<<"f","n">>, <<"l","e","t">>, <<"t","r","u","e">>, <<"f","a","l","s","e">>, <<"i","f">>, <<"e","l","s","e">>, <<"r","e","t","u","r","n">>}

\* Runs that contain or extend a keyword, or differ from one in case
NearKeywordWords ==
    {<<"l","e","t","t","e","r">>, <<"f","n","x">>, <<"L","e","t">>, <<"I","F">>, <<"r","e","t","u","r","n","s">>, <<"t","r","u">>, <<"f","n","_">>, <<"_","i","f">>, <<"x">>}

\* What stands between two runs of letters
RunSeparators == {" ", "\n", "(", "1", "=", "@"}

\* A word, or two words with a separator between them
KeywordInputs ==
    (KeywordWords \cup NearKeywordWords) \cup
    {w1 \o <<c>> \o w2 : w1 \in KeywordWords \cup NearKeywordWords,
                         w2 \in KeywordWords \cup NearKeywordWords,
                         c \in RunSeparators}

\* Lexer::new over a short text or over words
InitKeywords ==
    /\ input \in LexInputs \cup KeywordInputs
    /\ lx = LexerNew(input)
    /\ tokens = <<>>
    /\ pc = "lexing"
    /\ p = None
    /\ program = <<>>
    /\ attempt = None
    /\ round = 0
    /\ first = NoFirst
    /\ reader = <<>>
    /\ line_read = <<>>
    /\ output = <<>>

NextKeywords == LexNextToken

SpecKeywords == InitKeywords /\ [][NextKeywords]_vars

\* c is an ASCII letter or an underscore
IsRunCharacter(c) == is_ascii_alphabetic(c) \/ c = "_"

RECURSIVE RunFrom(_, _)
\* The run of letters and underscores of text that starts at index k
RunFrom(text, k) ==
    IF k <= Len(text) /\ IsRunCharacter(text[k])
    THEN <<text[k]>> \o RunFrom(text, k + 1)
    ELSE <<>>

\* The kind said for the run r: that of the keyword r is, IDENT otherwise
ClaimedKind(r) ==
    CASE r = <<"f","n">> -> "FUNCTION"
      [] r = <<"l","e","t">> -> "LET"
      [] r = <<"t","r","u","e">> -> "TRUE"
      [] r = <<"f","a","l","s","e">> -> "FALSE"
      [] r = <<"i","f">> -> "IF"
      [] r = <<"e","l","s","e">> -> "ELSE"
      [] r = <<"r","e","t","u","r","n">> -> "RETURN"
      [] OTHER -> "IDENT"

RECURSIVE RunsAsClaimed(_, _, _)
\* Of toks, the tokens lexed from index k of text on, the one lexed at the
\* start of a run is the one token said for that run, and no other token
\* is a keyword or an identifier. An EOF returned before the end of the
\* text stands for the one character it was returned for.
RunsAsClaimed(text, toks, k) ==
    IF toks = <<>> \/ TokenStart(text, k) > Len(text) THEN TRUE
    ELSE IF IsRunCharacter(text[TokenStart(text, k)])
    THEN /\ Head(toks).literal = RunFrom(text, TokenStart(text, k))
         /\ Head(toks).token_type = ClaimedKind(RunFrom(text, TokenStart(text, k)))
         /\ RunsAsClaimed(text, Tail(toks),
                          TokenStart(text, k) + Len(RunFrom(text, TokenStart(text, k))))
    ELSE /\ Head(toks).token_type \notin KeywordTypes \cup {"IDENT"}
         /\ RunsAsClaimed(text, Tail(toks),
                          TokenStart(text, k) + IF Head(toks).token_type = "EOF" THEN 1
                                                ELSE Len(Head(toks).literal))

\* C19: keyword/identifier partition. For every maximal run r of ASCII
\* letters and underscores in the input the lexer returns one token with
\* literal r, of the keyword's kind when r is one of fn, let, true, false,
\* if, else, return and of kind IDENT otherwise; no other token is a
\* keyword or an identifier.
C19_KeywordsAndIdentifiers == RunsAsClaimed(input, tokens, 1)

-----------------------------------------------------------------------------
(* Characters the lexer has no token for *)

\* c is whitespace, a letter, an underscore, a digit or one of the
\* punctuation characters next_token has a token for
IsRecognised(c) ==
    \/ is_ascii_whitespace(c)
    \/ IsRunCharacter(c)
    \/ is_ascii_digit(c)
    \/ c \in SingleChars \cup {"=", "!"}

RECURSIVE IllegalAsClaimed(_, _, _)
\* Of toks, the tokens lexed from index k of text on, the one lexed at a
\* character that is not recognised is ILLEGAL with that character as its
\* literal, and the token after it starts at the next character
IllegalAsClaimed(text, toks, k) ==
    IF toks = <<>> \/ TokenStart(text, k) > Len(text) THEN TRUE
    ELSE IF ~IsRecognised(text[TokenStart(text, k)])
    THEN /\ Head(toks).token_type = "ILLEGAL"
         /\ Head(toks).literal = <<text[TokenStart(text, k)]>>
         /\ Head(toks).line = LineOf(text, TokenStart(text, k))
         /\ Head(toks).column = ColumnOf(text, TokenStart(text, k))
         /\ StartsAt(text, Tail(toks), TokenStart(text, k) + 1)
         /\ IllegalAsClaimed(text, Tail(toks), TokenStart(text, k) + 1)
    ELSE /\ Head(toks).token_type # "ILLEGAL"
         /\ IllegalAsClaimed(text, Tail(toks), TokenStart(text, k) + Len(Head(toks).literal))

\* parse_expression on parser q, whose current token is ILLEGAL, returns
\* None and records that no prefix parse function is registered for it
IllegalRefused(q, a) ==
    /\ IsNone(a.r)
    /\ a.p.errors = Append(q.errors, ParserErrorAt(q.curr_token, "no prefix parse function",
                                                   "", "ILLEGAL", <<>>))
    /\ a.p.curr_token = q.curr_token

\* C20: the lexer never fails: a character that is not whitespace, a
\* letter, an underscore, a digit or a recognised punctuation character is
\* returned as one ILLEGAL token whose literal is exactly that character,
\* that one character is consumed and lexing continues with the next one;
\* when parse_expression finds such a token where an expression starts it
\* records a no-prefix-parse-function diagnostic.
C20_IllegalCharacters ==
    /\ IllegalAsClaimed(input, tokens, 1)
    /\ tokens = <<>> =>
          \A q \in ParsersOver(input) :
              is_curr_token(q, "ILLEGAL")
                  => IllegalRefused(q, call("parse_expression", q, LOWEST))

-----------------------------------------------------------------------------
(* Let statements that lack their name or their `=` *)

\* The diagnostics parse function result a recorded on top of those of q
Recorded(q, a) == SubSeq(a.p.errors, Len(q.errors) + 1, Len(a.p.errors))

\* The cursor and the lexer of parser r are those of parser q
SameCursor(q, r) ==
    /\ r.curr_token = q.curr_token
    /\ r.peek_token = q.peek_token
    /\ r.l = q.l

\* A diagnostic among errs says that kind expected was looked for at token
ExpectedAt(errs, expected, token) ==
    \E i \in 1..Len(errs) :
        /\ errs[i].kind = "expected token"
        /\ errs[i].expected = expected
        /\ errs[i].got = token.token_type
        /\ errs[i].span = [line |-> token.line, column |-> token.column]

\* parse_statement on parser q, whose current token is `let`, returned a:
\* without an IDENT after the `let`, or without an `=` after the IDENT,
\* there is no statement, the offending token is reported and the cursor
\* stays before it
LetRefusedAsClaimed(q, a) ==
    /\ ~is_peek_token(q, "IDENT") =>
          /\ IsNone(a.r)
          /\ ExpectedAt(Recorded(q, a), "IDENT", q.peek_token)
          /\ SameCursor(q, a.p)
    /\ (is_peek_token(q, "IDENT") /\ ~is_peek_token(p_next_token(q), "ASSIGN")) =>
          /\ IsNone(a.r)
          /\ ExpectedAt(Recorded(q, a), "ASSIGN", p_next_token(q).peek_token)
          /\ SameCursor(p_next_token(q), a.p)

\* C21: a let statement whose token after `let` is not IDENT records a
\* diagnostic naming the expected IDENT, and one whose token after the
\* identifier is not `=` records a diagnostic naming the expected ASSIGN;
\* in both cases the span of the diagnostic is the offending token, no
\* LetStatement is made for that `let`, and the failing check consumes no
\* token.
C21_LetWithoutNameOrAssign ==
    /\ (attempt.n > 0 /\ is_curr_token(attempt.before, "LET")) =>
          /\ LetRefusedAsClaimed(attempt.before, [p |-> attempt.after, r |-> attempt.stmt])
          /\ IsNone(attempt.stmt) =>
                \A i \in 1..Len(program) : program[i].token # attempt.before.curr_token
    /\ (attempt.n = 0 /\ pc = "loop") =>
          \A q \in ParsersOver(input) :
              is_curr_token(q, "LET")
                  => LetRefusedAsClaimed(q, call("parse_statement", q, None))

\* `let = ...`: the attempt on the `let` made no statement, reported the
\* `=` where an IDENT was expected and left the cursor on the `let`
C21_Witness ==
    /\ attempt.n = 1
    /\ is_curr_token(attempt.before, "LET")
    /\ is_peek_token(attempt.before, "ASSIGN")
    /\ IsNone(attempt.stmt)
    /\ Len(attempt.after.errors) = 1
    /\ attempt.after.errors[1].expected = "IDENT"
    /\ attempt.after.errors[1].got = "ASSIGN"
    /\ is_curr_token(attempt.after, "LET")

-----------------------------------------------------------------------------
(* The print of blocks *)

\* The most statements a printed block has
MaxBlockStatements == 2

Ident(name) == [kind |-> "Identifier", token |-> Token("IDENT", name, 1, 1), value |-> name]

Infix(left, operator, right) ==
    [kind |-> "InfixExpression", token |-> Token(SingleCharType(operator[1]), operator, 1, 1),
     left |-> left, operator |-> operator, right |-> right]

ExpressionStmt(e) == [kind |-> "Expression", token |-> e.token, value |-> e]

LetStmt(name, e) ==
    [kind |-> "Let", token |-> Token("LET", <<"l","e","t">>, 1, 1), name |-> Ident(name), value |-> e]

ReturnStmt(e) == [kind |-> "Return", token |-> Token("RETURN", <<"r","e","t","u","r","n">>, 1, 1), value |-> e]

Block(statements) ==
    [kind |-> "BlockStatement", token |-> Token("LBRACE", <<"{">>, 1, 1),
     statements |-> statements]

IfNode(condition, consequence, alternative) ==
    [kind |-> "IfExpression", token |-> Token("IF", <<"i","f">>, 1, 1), condition |-> condition,
     consequence |-> consequence, alternative |-> alternative]

FunctionNode(parameters, body) ==
    [kind |-> "FunctionLiteral", token |-> Token("FUNCTION", <<"f","n">>, 1, 1),
     parameters |-> parameters, body |-> body]

\* The statements of the printed blocks
BlockStatements ==
    {ExpressionStmt(Ident(<<"x">>)), ExpressionStmt(Ident(<<"y">>)),
     ExpressionStmt(Infix(Ident(<<"x">>), <<"+">>, Ident(<<"y">>))),
     LetStmt(<<"x">>, Ident(<<"y">>)), ReturnStmt(Ident(<<"x">>))}

RECURSIVE StatementLists(_)
\* The sequences of at most n of them
StatementLists(n) ==
    IF n = 0 THEN {<<>>}
    ELSE StatementLists(n - 1)
         \cup {Append(ss, s) : ss \in StatementLists(n - 1), s \in BlockStatements}

Blocks == {Block(ss) : ss \in StatementLists(MaxBlockStatements)}

Conditions == {Ident(<<"x">>), Infix(Ident(<<"x">>), <<"<">>, Ident(<<"y">>))}

\* The if expressions and function literals that are printed
BlockTrees ==
    {IfNode(c, b, a) : c \in Conditions, b \in Blocks, a \in Blocks \cup {None}}
    \cup {FunctionNode(ps, b) : ps \in {<<>>, <<Ident(<<"x">>), Ident(<<"y">>)>>}, b \in Blocks}

\* A Program of one expression statement that holds such a tree
InitPrint ==
    /\ program \in {<<ExpressionStmt(e)>> : e \in BlockTrees}
    /\ pc = "built"
    /\ first = NoFirst
    /\ reader = <<>>
    /\ line_read = <<>>
    /\ output = <<>>
    /\ input = <<>>
    /\ lx = None
    /\ tokens = <<>>
    /\ p = None
    /\ attempt = None
    /\ round = 0

\* format!("{}", program)
DisplayProgram ==
    /\ pc = "built"
    /\ first' = [print |-> fmt_Program(program), errors |-> <<>>]
    /\ pc' = "printed"
    /\ UNCHANGED <<input, lx, tokens, p, program, attempt, round, reader, line_read, output>>

NextPrint == DisplayProgram

SpecPrint == InitPrint /\ [][NextPrint]_vars

\* A block said to print as its statements, one after the other
BarePrint(b) == fmt_all(b.statements)

\* A block printed as its statements, one after the other, between braces
BracedPrint(b) == <<"{">> \o fmt_all(b.statements) \o <<"}">>

\* The print of an if expression or function literal e around the prints
\* consequence, alternative and body of its blocks
PrintAround(e, consequence, alternative, body) ==
    IF e.kind = "IfExpression"
    THEN <<"i","f">> \o fmt_Expression(e.condition) \o consequence
            \o (IF IsNone(e.alternative) THEN <<>> ELSE <<"e","l","s","e"," ">> \o alternative)
    ELSE <<"f","n","(">> \o fmt_joined(e.parameters) \o <<")"," ">> \o body

\* if (x < y) { x } else { y }
IfXLessYTree ==
    IfNode(Infix(Ident(<<"x">>), <<"<">>, Ident(<<"y">>)),
           Block(<<ExpressionStmt(Ident(<<"x">>))>>), Block(<<ExpressionStmt(Ident(<<"y">>))>>))

\* fn(x, y) { x + y; }
FnXPlusYTree ==
    FunctionNode(<<Ident(<<"x">>), Ident(<<"y">>)>>,
                 Block(<<ExpressionStmt(Infix(Ident(<<"x">>), <<"+">>, Ident(<<"y">>)))>>))

\* C22 as stated: a BlockStatement prints as its statements' prints, one
\* after the other, with no separator and without braces, so that the tree
\* for `if (x < y) { x } else { y }` prints as `if(x < y)xelse y` and the
\* body `{ x + y; }` of a function literal as `(x + y)`.
C22_BlocksPrintWithoutBraces ==
    pc = "printed" =>
        /\ first.print =
              PrintAround(program[1].value,
                          IF program[1].value.kind = "IfExpression"
                          THEN BarePrint(program[1].value.consequence) ELSE <<>>,
                          IF program[1].value.kind = "IfExpression"
                             /\ ~IsNone(program[1].value.alternative)
                          THEN BarePrint(program[1].value.alternative) ELSE <<>>,
                          IF program[1].value.kind = "FunctionLiteral"
                          THEN BarePrint(program[1].value.body) ELSE <<>>)
        /\ program[1].value = IfXLessYTree => first.print = <<"i","f","(","x"," ","<"," ","y",")","x","e","l","s","e"," ","y">>
        /\ program[1].value = FnXPlusYTree => first.print = <<"f","n","(","x",","," ","y",")"," ","(","x"," ","+"," ","y",")">>

\* C22, amended: a BlockStatement prints as `{`, its statements' prints one
\* after the other with no separator, and `}`, so that the tree for
\* `if (x < y) { x } else { y }` prints as `if(x < y){x}else {y}` and the
\* body `{ x + y; }` of a function literal as `{(x + y)}`.
C22_BlocksPrintWithBraces ==
    pc = "printed" =>
        /\ first.print =
              PrintAround(program[1].value,
                          IF program[1].value.kind = "IfExpression"
                          THEN BracedPrint(program[1].value.consequence) ELSE <<>>,
                          IF program[1].value.kind = "IfExpression"
                             /\ ~IsNone(program[1].value.alternative)
                          THEN BracedPrint(program[1].value.alternative) ELSE <<>>,
                          IF program[1].value.kind = "FunctionLiteral"
                          THEN BracedPrint(program[1].value.body) ELSE <<>>)
        /\ program[1].value = IfXLessYTree => first.print = <<"i","f","(","x"," ","<"," ","y",")","{","x","}","e","l","s","e"," ","{","y","}">>
        /\ program[1].value = FnXPlusYTree => first.print = <<"f","n","(","x",","," ","y",")"," ","{","(","x"," ","+"," ","y",")","}">>

\* The tree for `if (x < y) { x } else { y }` has been printed
C22_Witness ==
    /\ pc = "printed"
    /\ program = <<ExpressionStmt(IfXLessYTree)>>
    /\ first.print = <<"i","f","(","x"," ","<"," ","y",")","{","x","}","e","l","s","e"," ","{","y","}">>

-----------------------------------------------------------------------------
(* The repl *)

RECURSIVE parse_program_loop(_, _)
\* The while loop of parse_program, run to its end
parse_program_loop(q, statements) ==
    IF is_curr_token(q, "EOF") THEN [p |-> q, statements |-> statements]
    ELSE Bind(call("parse_statement", q, None), LAMBDA s :
           parse_program_loop(p_next_token(s.p),
                              IF IsNone(s.r) THEN statements ELSE Append(statements, s.r)))

\* Parser::parse_program: the parser after it and the statements of the Program
parse_program(q) == parse_program_loop(q, <<>>)

RECURSIVE trim_end_matches(_, _)
\* str::trim_end_matches: text without the characters of set at its end
trim_end_matches(text, set) ==
    IF text # <<>> /\ text[Len(text)] \in set
    THEN trim_end_matches(SubSeq(text, 1, Len(text) - 1), set)
    ELSE text

\* A repl that does not clear its line buffer before it reads
clear_nothing(buffer) == buffer

\* String::clear
clear(buffer) == <<>>

\* BufRead::read_line: the line is appended to the buffer
read_line(buffer, lines, next) == buffer \o lines[next]

\* What the repl writes
Prompt == [kind |-> "prompt", to |-> "output"]
Goodbye == [kind |-> "goodbye", to |-> "stdout"]
ParserErrorsPrinted(errors) == [kind |-> "parser errors", to |-> "output", errors |-> errors]
ProgramPrinted(statements) ==
    [kind |-> "program", to |-> "stdout", print |-> fmt_Program(statements)]

\* The most lines the repl is given
MaxLines == 3

\* What a line says, before its end
LineBodies ==
    {<<>>, <<"x",";">>, <<"1"," ","+"," ","2",";">>, <<"l","e","t"," ","x"," ","5",";">>, <<"(","x",";">>}

\* How a line ends
LineEnds == {<<"\n">>, <<"\r", "\n">>}

RECURSIVE LineLists(_)
\* The sequences of at most n lines
LineLists(n) ==
    IF n = 0 THEN {<<>>}
    ELSE LineLists(n - 1)
         \cup {Append(ls, b \o e) : ls \in LineLists(n - 1), b \in LineBodies, e \in LineEnds}

\* The last line may lack its end, if something is left of it
WithoutLastEnd(ls) ==
    [k \in 1..Len(ls) |-> IF k = Len(ls) THEN trim_end_matches(ls[k], {"\n", "\r"}) ELSE ls[k]]

ReplInputs ==
    LineLists(MaxLines)
    \cup {WithoutLastEnd(ls) : ls \in {l \in LineLists(MaxLines) :
                                         l # <<>> /\ WithoutLastEnd(l)[Len(l)] # <<>>}}

\* repl, up to its loop
InitRepl ==
    /\ reader \in {[lines |-> ls, next |-> 1] : ls \in ReplInputs}
    /\ line_read = <<>>
    /\ output = <<>>
    /\ pc = "prompt"
    /\ input = <<>>
    /\ p = None
    /\ program = <<>>
    /\ attempt = None
    /\ round = 0
    /\ first = NoFirst
    /\ lx = None
    /\ tokens = <<>>

\* An iteration of the loop that reads no bytes: the repl returns Ok(())
ReplEndOfInput ==
    /\ pc = "prompt"
    /\ reader.next > Len(reader.lines)
    /\ line_read' = clear(line_read)
    /\ output' = output \o <<Prompt, Goodbye>>
    /\ pc' = "returned"
    /\ UNCHANGED <<input, lx, tokens, p, program, attempt, round, first, reader>>

\* An iteration of the loop that reads a line with nothing before its end
ReplEmptyLine ==
    /\ pc = "prompt"
    /\ reader.next <= Len(reader.lines)
    /\ line_read' = read_line(clear(line_read), reader.lines, reader.next)
    /\ trim_end_matches(line_read', {"\n", "\r"}) = <<>>
    /\ reader' = [reader EXCEPT !.next = @ + 1]
    /\ output' = Append(output, Prompt)
    /\ UNCHANGED <<input, lx, tokens, pc, p, program, attempt, round, first>>

\* An iteration of the loop that reads a line and parses it
ReplLine ==
    /\ pc = "prompt"
    /\ reader.next <= Len(reader.lines)
    /\ line_read' = read_line(clear(line_read), reader.lines, reader.next)
    /\ trim_end_matches(line_read', {"\n", "\r"}) # <<>>
    /\ reader' = [reader EXCEPT !.next = @ + 1]
    /\ input' = trim_end_matches(line_read', {"\n", "\r"})
    /\ \E parsed \in {parse_program(ParserNew(LexerNew(input')))} :
          /\ p' = parsed.p
          /\ program' = parsed.statements
    /\ output' = output \o <<Prompt,
                             IF p'.errors # <<>> THEN ParserErrorsPrinted(p'.errors)
                             ELSE ProgramPrinted(program')>>
    /\ UNCHANGED <<lx, tokens, pc, attempt, round, first>>

NextRepl == ReplEndOfInput \/ ReplEmptyLine \/ ReplLine

SpecRepl == InitRepl /\ [][NextRepl]_vars

\* text without the line feeds and carriage returns at its end
WithoutLineEnd(text) ==
    SubSeq(text, 1, Cardinality({k \in 1..Len(text) :
                                    \E j \in k..Len(text) : text[j] \notin {"\n", "\r"}}))

\* What is said to be written for a line that is not empty, parsed on its
\* own: the diagnostics if there are any, the print of the Program if not
WrittenFor(text) ==
    Bind(parse_program(ParserNew(LexerNew(text))), LAMBDA parsed :
      IF parsed.p.errors # <<>>
      THEN <<[kind |-> "parser errors", to |-> "output", errors |-> parsed.p.errors]>>
      ELSE <<[kind |-> "program", to |-> "stdout", print |-> fmt_Program(parsed.statements)]>>)

RECURSIVE WrittenForLines(_, _)
\* What is said to be written for the first n of lines
WrittenForLines(lines, n) ==
    IF n = 0 THEN <<>>
    ELSE WrittenForLines(lines, n - 1) \o <<Prompt>>
            \o (IF WithoutLineEnd(lines[n]) = <<>> THEN <<>>
                ELSE WrittenFor(WithoutLineEnd(lines[n])))

\* C23: in the repl every non-empty line is fed to a fresh lexer and
\* parser, and for that line exactly one of two things is written: the
\* diagnostics, when there are any (the Program is then not printed), or
\* the print of the Program; what is written for a line is what is written
\* for it on its own, whatever lines came before; and the end of the input
\* ends the loop normally.
C23_ReplLines ==
    /\ pc \in {"prompt", "returned"}
    /\ output = WrittenForLines(reader.lines, reader.next - 1)
                   \o (IF pc = "returned" THEN <<Prompt, Goodbye>> ELSE <<>>)
    /\ pc = "returned" <=> reader.next > Len(reader.lines) /\ output # <<>>
                              /\ output[Len(output)] = Goodbye
    /\ \A i \in 1..Len(output) :
          /\ output[i].kind = "parser errors" => output[i].errors # <<>>
          /\ output[i].kind \in {"parser errors", "program"}
                => /\ output[i - 1] = Prompt
                   /\ i < Len(output) => output[i + 1] = Prompt

\* A line with diagnostics, then a clean line: the diagnostics of the
\* first were written, then the print of the second
C23_Witness ==
    /\ reader.next = 3
    /\ Len(output) = 4
    /\ output[2].kind = "parser errors"
    /\ Len(output[2].errors) >= 1
    /\ output[4] = [kind |-> "program", to |-> "stdout", print |-> <<"x">>]
    /\ p.errors = <<>>

-----------------------------------------------------------------------------
(* The diagnostic list only grows *)

\* The sequence s is the beginning of the sequence t
IsPrefix(s, t) == Len(s) <= Len(t) /\ SubSeq(t, 1, Len(s)) = s

\* A parser just made has no diagnostics, and the last statement attempt
\* kept those it found and left the list to parse_program as it made it
DiagnosticsKept ==
    /\ (pc = "loop" /\ attempt.n = 0) => p.errors = <<>>
    /\ attempt.n > 0 =>
          /\ IsPrefix(attempt.before.errors, attempt.after.errors)
          /\ p.errors = attempt.after.errors
    /\ (attempt.n > 0 /\ attempt.after.errors # attempt.before.errors) => p.errors # <<>>
    /\ (attempt.n = 0 /\ pc = "done") => p.errors = <<>>

\* A step changes the diagnostic list only by a statement attempt that
\* starts from the parser as it is, and only by appending to it
DiagnosticsAppended ==
    /\ IsPrefix(p.errors, p'.errors)
    /\ p'.errors # p.errors => (attempt'.n = attempt.n + 1 /\ attempt'.before = p)

\* C24: error observability. The parser's diagnostic list is empty after
\* construction and is only ever appended to during parsing, no diagnostic
\* being removed, replaced or reordered; so it is non-empty at the end of
\* a call sequence in which a diagnostic was recorded and empty after a
\* parse in which none was.
C24_DiagnosticsOnlyAppended ==
    /\ []DiagnosticsKept
    /\ [][DiagnosticsAppended]_vars

\* parse_program has returned with the diagnostics of two statement
\* attempts, the second of which added to those of the first
C24_Witness ==
    /\ pc = "done"
    /\ attempt.n >= 2
    /\ attempt.before.errors # <<>>
    /\ Len(attempt.after.errors) > Len(attempt.before.errors)
    /\ p.errors = attempt.after.errors

-----------------------------------------------------------------------------
(* Resynchronisation after a statement *)

\* After the last statement attempt parse_program stepped over exactly one
\* token: the token the attempt ended before is the current one, the next
\* token of the lexer is the peek token
OneTokenAfterAttempt ==
    attempt.n > 0 =>
        /\ p.curr_token = attempt.after.peek_token
        /\ p.peek_token = next_token(attempt.after.l).tok
        /\ p.l = next_token(attempt.after.l).l
        /\ p.errors = attempt.after.errors

\* A statement attempt starts at the token parse_program stepped to
NextAttemptStartsThere == attempt'.n = attempt.n + 1 => attempt'.before = p

\* `let x 5;`: the attempt on `let` fails on the `5`, the next one parses
\* `5;` as an expression statement
LetX5Resynchronised ==
    (input = In_LetNoAssign /\ pc = "done") =>
        /\ attempt.n = 2
        /\ Len(p.errors) = 1
        /\ Len(program) = 1
        /\ program[1].kind = "Expression"
        /\ program[1].value.kind = "IntegerLiteral"
        /\ program[1].value.token.literal = <<"5">>

\* C25: single-token resync. After every statement attempt, successful
\* or failed, parse_program advances the cursor by exactly one token and
\* starts the next attempt at that token; it does not skip ahead to the
\* next `;`, so what is left of a failed statement is parsed as statements:
\* for `let x 5;` the attempt on `let` fails and a later attempt parses
\* `5;` as an expression statement.
C25_SingleTokenResync ==
    /\ [](OneTokenAfterAttempt /\ LetX5Resynchronised)
    /\ [][NextAttemptStartsThere]_vars

\* `let x 5;` has been parsed: one diagnostic, and the statement `5;`
C25_Witness ==
    /\ input = In_LetNoAssign
    /\ pc = "done"
    /\ attempt.n = 2
    /\ IsNone(attempt.stmt) = FALSE
    /\ is_curr_token(attempt.before, "INT")
    /\ Len(p.errors) = 1
    /\ Len(program) = 1

-----------------------------------------------------------------------------
(* The token of an expression statement *)

\* Node::token_literal of a LetStatement, ReturnStatement or
\* ExpressionStatement, and of a Statement that is one of them
token_literal_Statement(s) == s.token.literal

\* Node::token_literal of a Program
token_literal_Program(statements) ==
    IF statements # <<>> THEN token_literal_Statement(statements[1]) ELSE <<>>

\* parse_statement on parser q returned a: an expression statement has the
\* token q was on
TokenOfFirst(q, a) ==
    (~IsNone(a.r) /\ a.r.kind = "Expression") =>
        /\ a.r.token = q.curr_token
        /\ token_literal_Statement(a.r) = q.curr_token.literal

\* C26: the token stored in every ExpressionStatement is the first token
\* of its expression, the token the cursor was on when the statement
\* started, so that token_literal() of an expression statement, and of a
\* Program whose first statement is one, is the literal of the first token
\* of the expression: for `a + b;` it is `a`.
C26_ExpressionStatementToken ==
    /\ attempt.n > 0 => TokenOfFirst(attempt.before, [p |-> attempt.after, r |-> attempt.stmt])
    /\ (attempt.n = 1 /\ Len(program) = 1 /\ program[1].kind = "Expression")
          => token_literal_Program(program) = attempt.before.curr_token.literal
    /\ (attempt.n = 0 /\ pc = "loop") =>
          \A q \in ParsersOver(input) : TokenOfFirst(q, call("parse_statement", q, None))

-----------------------------------------------------------------------------
(* The two tokens the parser looks at *)

RECURSIVE TokensFrom(_, _)
\* The next n tokens of lexer l, in order
TokensFrom(l, n) ==
    IF n = 0 THEN <<>>
    ELSE <<next_token(l).tok>> \o TokensFrom(next_token(l).l, n - 1)

RECURSIVE LexerAfter(_, _)
\* The lexer l after n calls of next_token
LexerAfter(l, n) == IF n = 0 THEN l ELSE LexerAfter(next_token(l).l, n - 1)

\* Lexer::new and Parser::new over a short text; tokens and lx follow what
\* the lexer has handed to the parser
InitLookahead ==
    /\ input \in LexInputs
    /\ p = ParserNew(LexerNew(input))
    /\ tokens = TokensFrom(LexerNew(input), 2)
    /\ lx = LexerAfter(LexerNew(input), 2)
    /\ pc = "parsing"
    /\ program = <<>>
    /\ attempt = None
    /\ round = 0
    /\ first = NoFirst
    /\ reader = <<>>
    /\ line_read = <<>>
    /\ output = <<>>

\* A call of Parser::next_token
ParserNextToken ==
    /\ pc = "parsing"
    /\ EofCount(tokens) <= MaxCallsAfterEof
    /\ p' = p_next_token(p)
    /\ lx' = next_token(lx).l
    /\ tokens' = Append(tokens, next_token(lx).tok)
    /\ UNCHANGED <<input, pc, program, attempt, round, first, reader, line_read, output>>

NextLookahead == ParserNextToken

SpecLookahead == InitLookahead /\ [][NextLookahead]_vars

\* Parser q looks at two tokens that follow each other in the token stream
\* of text
OnTheStream(q, text) ==
    \E k \in 1..(Len(text) + 2) :
        /\ q.curr_token = TokensFrom(LexerNew(text), k + 1)[k]
        /\ q.peek_token = TokensFrom(LexerNew(text), k + 1)[k + 1]
        /\ q.l = LexerAfter(LexerNew(text), k + 1)

\* C27: two-token lookahead. After construction and after every advance
\* of the cursor the peek token is the token the lexer produced right
\* after the current token, the values of the current token are the
\* lexer's tokens in order, none skipped, doubled or out of order (also
\* where a parse function leaves the cursor), and once the current token
\* is EOF the peek token is EOF too.
C27_TwoTokenLookahead ==
    /\ p.curr_token = tokens[Len(tokens) - 1]
    /\ p.peek_token = tokens[Len(tokens)]
    /\ p.l = lx
    /\ Len(tokens) = 2 =>
          \A q \in ParsersOver(input) :
              OnTheStream(call("parse_statement", q, None).p, input)
    /\ is_curr_token(p, "EOF") => is_peek_token(p, "EOF")

-----------------------------------------------------------------------------
(* The EOF tokens after the first *)

\* C28: once next_token has returned EOF, every later EOF token equals
\* the first one in kind, literal, line and column, so that a diagnostic
\* against an EOF token carries the same position however many tokens
\* were pulled after the end of the input.
C28_LaterEofEqualsFirst ==
    \A i \in 1..Len(tokens) :
        (FirstEof(tokens) > 0 /\ i > FirstEof(tokens)) =>
            tokens[i] = tokens[FirstEof(tokens)]

-----------------------------------------------------------------------------
(* Let and return statements without a value *)

RECURSIVE AbsentValues(_)
RECURSIVE AbsentValuesIn(_)

\* The number of let and return statements without a value in the nodes
\* of a list
AbsentValuesIn(nodes) ==
    IF nodes = <<>> THEN 0
    ELSE AbsentValues(Head(nodes)) + AbsentValuesIn(Tail(nodes))

\* The number of let and return statements without a value in the tree n
AbsentValues(n) ==
    CASE n.kind \in {"Let", "Return"} ->
            IF IsNone(n.value) THEN 1 ELSE AbsentValues(n.value)
      [] n.kind = "Expression" -> AbsentValues(n.value)
      [] n.kind = "PrefixExpression" -> AbsentValues(n.right)
      [] n.kind = "InfixExpression" -> AbsentValues(n.left) + AbsentValues(n.right)
      [] n.kind = "IfExpression" ->
            AbsentValues(n.condition) + AbsentValues(n.consequence)
                + AbsentValues(n.alternative)
      [] n.kind = "FunctionLiteral" -> AbsentValues(n.body)
      [] n.kind = "CallExpression" ->
            AbsentValues(n.function) + AbsentValuesIn(n.arguments)
      [] n.kind = "BlockStatement" -> AbsentValuesIn(n.statements)
      [] OTHER -> 0

RECURSIVE ValueStatements(_)
RECURSIVE ValueStatementsIn(_)

\* The number of let and return statements in the nodes of a list
ValueStatementsIn(nodes) ==
    IF nodes = <<>> THEN 0
    ELSE ValueStatements(Head(nodes)) + ValueStatementsIn(Tail(nodes))

\* The number of let and return statements in the tree n
ValueStatements(n) ==
    CASE n.kind \in {"Let", "Return"} -> 1 + ValueStatements(n.value)
      [] n.kind = "Expression" -> ValueStatements(n.value)
      [] n.kind = "PrefixExpression" -> ValueStatements(n.right)
      [] n.kind = "InfixExpression" -> ValueStatements(n.left) + ValueStatements(n.right)
      [] n.kind = "IfExpression" ->
            ValueStatements(n.condition) + ValueStatements(n.consequence)
                + ValueStatements(n.alternative)
      [] n.kind = "FunctionLiteral" -> ValueStatements(n.body)
      [] n.kind = "CallExpression" ->
            ValueStatements(n.function) + ValueStatementsIn(n.arguments)
      [] n.kind = "BlockStatement" -> ValueStatementsIn(n.statements)
      [] OTHER -> 0

LetWithoutValueReturned ==
    /\ pc = "done"
    /\ AbsentValuesIn(program) > 0
    /\ p.errors # <<>>

-----------------------------------------------------------------------------
(* Grouping parentheses *)

\* Lexer::new, Parser::new and parse_program over text: the diagnostics and
\* the print of the Program
Parsed(text) ==
    Bind(parse_program(ParserNew(LexerNew(text))), LAMBDA a :
        [errors |-> a.p.errors, print |-> fmt_Program(a.statements)])

\* A clean parse that prints as print
Clean(print) == [errors |-> <<>>, print |-> print]

\* parse_grouped_expression, wherever the input has a `(` that opens a
\* group that parses, returns the node parse_expression builds at LOWEST
\* from the token after the `(`, and stops on the `)` that follows it
GroupLeavesNoNode ==
    \A q \in ParsersOver(input) :
        is_curr_token(q, "LPAREN") =>
            Bind(call("parse_grouped_expression", q, None), LAMBDA g :
            Bind(call("parse_expression", p_next_token(q), LOWEST), LAMBDA e :
                ~IsNone(g.r) =>
                    /\ g.r = e.r
                    /\ is_curr_token(g.p, "RPAREN")
                    /\ g.p.curr_token = e.p.peek_token
                    /\ g.p.errors = e.p.errors))

\* The input is one expression statement, parsed without a diagnostic
OneCleanExpression ==
    /\ pc = "done"
    /\ round = 1
    /\ p.errors = <<>>
    /\ Len(program) = 1
    /\ program[1].kind = "Expression"
    /\ input[Len(input)] = ";"

\* The expression of the input, in parentheses, prints as it does without
\* them, and is one operand of an operator before it or after it
GroupIsOneOperand ==
    OneCleanExpression =>
        Bind(SubSeq(input, 1, Len(input) - 1), LAMBDA e :
        Bind(fmt_Program(program), LAMBDA print :
            /\ Parsed(<<"(">> \o e \o <<")",";">>) = Clean(print)
            /\ Parsed(<<"(">> \o e \o <<")"," ","*"," ","z",";">>) = Clean(<<"(">> \o print \o <<" ","*"," ","z",")">>)
            /\ Parsed(<<"z"," ","*"," ","(">> \o e \o <<")",";">>) = Clean(<<"(","z"," ","*"," ">> \o print \o <<")">>)
            /\ Parsed(<<"(">> \o e \o <<")"," ","=","="," ","z",";">>) = Clean(<<"(">> \o print \o <<" ","=","="," ","z",")">>)
            /\ Parsed(<<"!","(">> \o e \o <<")",";">>) = Clean(<<"(","!">> \o print \o <<")">>)))

\* C30: grouping parentheses leave no node of their own. Parsing `(e)`
\* yields the tree of `e` parsed at LOWEST, the group is then a single
\* operand of the operators around it whatever their precedence
\* (`(a + b) * c;` prints `((a + b) * c)`, `!(true == true);` prints
\* `(!(true == true))`), and after a grouped parse that succeeded the
\* current token is the matching `)`.
C30_GroupingLeavesNoNode ==
    /\ pc = "done" => GroupLeavesNoNode
    /\ GroupIsOneOperand
    /\ (pc = "done" /\ round = 1 /\ input = In_GroupProduct) =>
          /\ p.errors = <<>>
          /\ fmt_Program(program) = <<"(","(","a"," ","+"," ","b",")"," ","*"," ","c",")">>
    /\ (pc = "done" /\ round = 1 /\ input = In_BangGroup) =>
          /\ p.errors = <<>>
          /\ fmt_Program(program) = <<"(","!","(","t","r","u","e"," ","=","="," ","t","r","u","e",")",")">>

\* C30 happens: `(a + b) * c;` was parsed, and the sum in parentheses is
\* the left operand of the product
C30_Witness ==
    /\ pc = "done"
    /\ input = In_GroupProduct
    /\ p.errors = <<>>
    /\ Len(program) = 1
    /\ program[1].value.kind = "InfixExpression"
    /\ program[1].value.operator = <<"*">>
    /\ program[1].value.left.kind = "InfixExpression"
    /\ program[1].value.left.operator = <<"+">>
    /\ program[1].value.left.token.column = 4

=============================================================================
